---- MODULE Spec2Model ----
(***************************************************************************)
(* Install tracking of cargo (ops/common_for_install_and_uninstall.rs):    *)
(* the two on-disk records .crates.toml (v1, legacy) and .crates2.json     *)
(* (v2, current), the InstallTracker that loads, mutates and saves them,   *)
(* and the freshness decision check_upgrade.                               *)
(***************************************************************************)
EXTENDS Integers, Sequences, FiniteSets, TLC

VARIABLES
    file_v1,    \* bytes of <root>/.crates.toml, as a sequence of lines
    file_v2,    \* bytes of <root>/.crates2.json, as a sequence of tokens
    dst,        \* names of the files that exist in the destination directory
    pc,         \* "unloaded" | "loaded" | "panicked": is there an InstallTracker
    tracker,    \* the InstallTracker value: [v1 |-> CrateListingV1, v2 |-> CrateListingV2]
    last,       \* the last call made and what it returned
    packages,   \* PackageSet::packages: the Vec<Package> of the set being sorted
    sorted,     \* what PackageSet::sort returned, NotSorted before the call
    lock_v1,    \* the processes that hold the lock of .crates.toml
    lock_v2,    \* the processes that hold the lock of .crates2.json
    cache_lock, \* per process, how often it holds the package cache lock
    procs       \* per process: where it is, its InstallTracker, its last return

\* The variables of the install tracking and those of the package set.
tracker_vars == <<file_v1, file_v2, dst, pc, tracker, last>>
sort_vars == <<packages, sorted>>
proc_vars == <<lock_v1, lock_v2, cache_lock, procs>>

\* What an operation of the InstallTracker cannot touch.
outside_tracker == <<sort_vars, proc_vars>>

vars == <<tracker_vars, sort_vars, proc_vars>>

-----------------------------------------------------------------------------
(* Option<T>: None is the empty sequence, Some(x) the one-element sequence. *)

None == <<>>
Some(x) == <<x>>

-----------------------------------------------------------------------------
(* Package identities: (name, version, source), the source being           *)
(* (kind, url, precise).                                                   *)

SrcRegistry == [kind |-> "registry", url |-> "crates-io", precise |-> None]
SrcGitA == [kind |-> "git", url |-> "git-foo", precise |-> Some("rev-a")]
SrcGitB == [kind |-> "git", url |-> "git-foo", precise |-> Some("rev-b")]
SrcPath == [kind |-> "path", url |-> "/home/foo", precise |-> None]

PkgId(n, v, s) == [name |-> n, version |-> v, source_id |-> s]

FooReg1 == PkgId("foo", "1.0.0", SrcRegistry)
FooReg2 == PkgId("foo", "2.0.0", SrcRegistry)
BarReg1 == PkgId("bar", "1.0.0", SrcRegistry)
FooGitA == PkgId("foo", "1.0.0", SrcGitA)
FooGitB == PkgId("foo", "1.0.0", SrcGitB)
FooPath == PkgId("foo", "1.0.0", SrcPath)

\* The identities in the order of PackageId's Ord (name, version, source),
\* which is the iteration order of the BTreeMaps keyed by PackageId.
PkgOrder == <<BarReg1, FooGitA, FooGitB, FooPath, FooReg1, FooReg2>>

\* Binary names in the order of String's Ord (the order of a BTreeSet<String>).
BinOrder == <<"bar", "foo">>

\* Every binary name of the model.
Bins == {BinOrder[i] : i \in 1..Len(BinOrder)}

\* Feature names in the order of String's Ord.
FeatureOrder == <<"x", "y">>

\* Keys a future version of the format may add, in the order of String's Ord.
UnknownOrder == <<"future">>

is_path(source_id) == source_id.kind = "path"
is_git(source_id) == source_id.kind = "git"

\* SourceId's == compares the origin (kind and url) and not the precise
\* revision, which check_upgrade compares on its own for git sources.
SourceIdEq(a, b) == a.kind = b.kind /\ a.url = b.url

-----------------------------------------------------------------------------
(* Iteration of the ordered collections.                                   *)

\* The elements of S in the order given by the sequence order.
Sorted(S, order) == SelectSeq(order, LAMBDA e : e \in S)

Range(s) == {s[i] : i \in 1..Len(s)}

\* Helper to convert features Vec to a BTreeSet.
feature_set(features) == Range(features)

-----------------------------------------------------------------------------
(* The records.                                                            *)

\* InstallInfo::from_v1
from_v1(set) ==
    [version_req |-> None,
     bins |-> set,
     features |-> {},
     all_features |-> FALSE,
     no_default_features |-> FALSE,
     profile |-> "release",
     target |-> None,
     rustc |-> None,
     other |-> {}]

\* CrateListingV1::default(): no installed package.
DefaultV1 == [p \in {} |-> {}]

\* CrateListingV2::default(): no installed package, no unknown key.
DefaultV2 == [installs |-> [p \in {} |-> from_v1({})], other |-> {}]

\* The value of the tracker variable while no InstallTracker exists.
NoTracker == [v1 |-> DefaultV1, v2 |-> DefaultV2]

\* The value of last before any call.
NoCall == [op |-> "none"]

-----------------------------------------------------------------------------
(* The file formats.  A file is a sequence of lines (TOML) or tokens       *)
(* (JSON); the empty sequence is the empty file.  A write that fails half  *)
(* way leaves a prefix of the data, possibly cut inside a line or token.   *)

TableLine == [kind |-> "table", name |-> "v1"]
EntryLine(k, v) == [kind |-> "entry", key |-> k, value |-> v]
TornLine == [kind |-> "torn"]

\* toml::to_string(&CrateListingV1): the [v1] table, one line per package in
\* key order, each binary set as an array in set order.
toml_to_string(v1) ==
    LET keys == Sorted(DOMAIN v1, PkgOrder)
    IN <<TableLine>> \o
       [i \in 1..Len(keys) |-> EntryLine(keys[i], Sorted(v1[keys[i]], BinOrder))]

\* Whether toml::from_str accepts the text as a CrateListingV1.
toml_parses(contents) ==
    /\ Len(contents) >= 1
    /\ contents[1] = TableLine
    /\ \A i \in 2..Len(contents) : contents[i].kind = "entry"
    /\ \A i, j \in 2..Len(contents) : contents[i].key = contents[j].key => i = j

\* toml::from_str::<CrateListingV1>: arrays are collected into sets.
toml_from_str(contents) ==
    LET keys == {contents[i].key : i \in 2..Len(contents)}
        line(k) == CHOOSE i \in 2..Len(contents) : contents[i].key = k
    IN [k \in keys |-> Range(contents[line(k)].value)]

OpenToken == [kind |-> "open"]
CloseToken == [kind |-> "close"]
OtherToken(k) == [kind |-> "other", key |-> k]
InstallToken(k, info) ==
    [kind |-> "install", key |-> k,
     version_req |-> info.version_req,
     bins |-> Sorted(info.bins, BinOrder),
     features |-> Sorted(info.features, FeatureOrder),
     all_features |-> info.all_features,
     no_default_features |-> info.no_default_features,
     profile |-> info.profile,
     target |-> info.target,
     rustc |-> info.rustc,
     other |-> Sorted(info.other, UnknownOrder)]

\* serde_json::to_string(&CrateListingV2): one object holding the installs
\* in key order and then the flattened unknown keys.
json_to_string(v2) ==
    LET keys == Sorted(DOMAIN v2.installs, PkgOrder)
        unknown == Sorted(v2.other, UnknownOrder)
    IN <<OpenToken>> \o
       [i \in 1..Len(keys) |-> InstallToken(keys[i], v2.installs[keys[i]])] \o
       [i \in 1..Len(unknown) |-> OtherToken(unknown[i])] \o
       <<CloseToken>>

\* Whether serde_json::from_str accepts the text as a CrateListingV2: the
\* object must be closed, so no proper prefix of a document parses.
json_parses(contents) ==
    /\ Len(contents) >= 2
    /\ contents[1] = OpenToken
    /\ contents[Len(contents)] = CloseToken
    /\ \A i \in 2..(Len(contents) - 1) : contents[i].kind \in {"install", "other"}
    /\ \A i, j \in 2..(Len(contents) - 1) :
          /\ contents[i].kind = "install"
          /\ contents[j].kind = "install"
          /\ contents[i].key = contents[j].key
          => i = j

\* serde_json::from_str::<CrateListingV2>: arrays are collected into sets,
\* unknown keys are kept in other.
json_from_str(contents) ==
    LET mid == 2..(Len(contents) - 1)
        keys == {contents[i].key : i \in {j \in mid : contents[j].kind = "install"}}
        tok(k) == contents[CHOOSE i \in mid :
                               contents[i].kind = "install" /\ contents[i].key = k]
    IN [installs |->
            [k \in keys |->
                [version_req |-> tok(k).version_req,
                 bins |-> Range(tok(k).bins),
                 features |-> Range(tok(k).features),
                 all_features |-> tok(k).all_features,
                 no_default_features |-> tok(k).no_default_features,
                 profile |-> tok(k).profile,
                 target |-> tok(k).target,
                 rustc |-> tok(k).rustc,
                 other |-> Range(tok(k).other)]],
        other |-> {contents[i].key : i \in {j \in mid : contents[j].kind = "other"}}]

-----------------------------------------------------------------------------
(* CrateListingV2                                                          *)

\* sync_v1 as it would be if it returned once it had inserted a package,
\* before it removes the packages that v1 does not have.
sync_v1_return_after_insert(self, v1) ==
    LET synced == [p \in DOMAIN self.installs \cup DOMAIN v1 |->
                      IF p \in DOMAIN v1
                      THEN IF p \in DOMAIN self.installs
                           THEN [self.installs[p] EXCEPT !.bins = v1[p]]
                           ELSE from_v1(v1[p])
                      ELSE self.installs[p]]
        to_remove == IF DOMAIN v1 \subseteq DOMAIN self.installs
                     THEN {p \in DOMAIN synced : p \notin DOMAIN v1}
                     ELSE {}
    IN [self EXCEPT !.installs = [p \in DOMAIN synced \ to_remove |-> synced[p]]]

\* sync_v1 as it would be if it kept the packages that v1 does not have.
sync_v1_keep_stale(self, v1) ==
    [self EXCEPT !.installs =
        [p \in DOMAIN self.installs \cup DOMAIN v1 |->
            IF p \in DOMAIN v1
            THEN IF p \in DOMAIN self.installs
                 THEN [self.installs[p] EXCEPT !.bins = v1[p]]
                 ELSE from_v1(v1[p])
            ELSE self.installs[p]]]

\* Incorporate any changes from v1 into self: v1 is the source of truth.
sync_v1(self, v1) ==
    LET \* Make the `bins` entries the same.
        synced == [p \in DOMAIN self.installs \cup DOMAIN v1 |->
                      IF p \in DOMAIN v1
                      THEN IF p \in DOMAIN self.installs
                           THEN [self.installs[p] EXCEPT !.bins = v1[p]]
                           ELSE from_v1(v1[p])
                      ELSE self.installs[p]]
        \* Remove any packages that aren't present in v1.
        to_remove == {p \in DOMAIN synced : p \notin DOMAIN v1}
    IN [self EXCEPT !.installs = [p \in DOMAIN synced \ to_remove |-> synced[p]]]

\* The first package, in key order, whose bins contain bin_name.
package_for_bin(self, bin_name) ==
    LET owners == Sorted({p \in DOMAIN self.installs :
                             bin_name \in self.installs[p].bins}, PkgOrder)
    IN IF Len(owners) = 0 THEN None ELSE Some(owners[1])

\* CrateListingV2::mark_installed as it would be if, for a package that
\* has an entry, it added the bins and kept the recorded configuration.
v2_mark_installed_bins_only(self, pkg, bins, version_req, opts, target, rustc) ==
    LET stripped == [p \in DOMAIN self.installs |->
                        [self.installs[p] EXCEPT !.bins = @ \ bins]]
        kept == {p \in DOMAIN stripped : stripped[p].bins # {}}
        id == pkg.package_id
        entry == IF id \in kept
                    THEN [stripped[id] EXCEPT !.bins = @ \cup bins]
                    ELSE [version_req |-> version_req,
                          bins |-> bins,
                          features |-> feature_set(opts.features),
                          all_features |-> opts.all_features,
                          no_default_features |-> opts.no_default_features,
                          profile |-> opts.requested_profile,
                          target |-> Some(target),
                          rustc |-> Some(rustc),
                          other |-> {}]
    IN [self EXCEPT !.installs =
            [p \in kept \cup {id} |-> IF p = id THEN entry ELSE stripped[p]]]

\* CrateListingV2::mark_installed
v2_mark_installed(self, pkg, bins, version_req, opts, target, rustc) ==
    LET \* Remove bins from any other packages.
        stripped == [p \in DOMAIN self.installs |->
                        [self.installs[p] EXCEPT !.bins = @ \ bins]]
        \* Remove entries where `bins` is empty.
        to_remove == {p \in DOMAIN stripped : stripped[p].bins = {}}
        kept == DOMAIN stripped \ to_remove
        id == pkg.package_id
        \* Add these bins.
        entry == IF id \in kept
                    THEN [stripped[id] EXCEPT
                            !.bins = @ \cup bins,
                            !.version_req = version_req,
                            !.features = feature_set(opts.features),
                            !.all_features = opts.all_features,
                            !.no_default_features = opts.no_default_features,
                            !.profile = opts.requested_profile,
                            !.target = Some(target),
                            !.rustc = Some(rustc)]
                    ELSE [version_req |-> version_req,
                          bins |-> bins,
                          features |-> feature_set(opts.features),
                          all_features |-> opts.all_features,
                          no_default_features |-> opts.no_default_features,
                          profile |-> opts.requested_profile,
                          target |-> Some(target),
                          rustc |-> Some(rustc),
                          other |-> {}]
    IN [self EXCEPT !.installs =
            [p \in kept \cup {id} |-> IF p = id THEN entry ELSE stripped[p]]]

\* CrateListingV2::remove as it would be if it kept an entry whose bins
\* have all been removed.
v2_remove_keep_entry(self, pkg_id, bins) ==
    [self EXCEPT !.installs[pkg_id].bins = @ \ bins]

\* CrateListingV2::remove, for a pkg_id that has an entry (the code panics
\* on a missing one, see Remove).
v2_remove(self, pkg_id, bins) ==
    LET left == self.installs[pkg_id].bins \ bins
    IN [self EXCEPT !.installs =
            IF left = {}
            THEN [p \in DOMAIN self.installs \ {pkg_id} |-> self.installs[p]]
            ELSE [self.installs EXCEPT ![pkg_id].bins = left]]

-----------------------------------------------------------------------------
(* CrateListingV1                                                          *)

\* CrateListingV1::mark_installed as it would be if it left the bins of the
\* other packages alone.
v1_mark_installed_keep_others(v1, pkg, bins) ==
    LET id == pkg.package_id
    IN [p \in DOMAIN v1 \cup {id} |->
            IF p = id
            THEN (IF id \in DOMAIN v1 THEN v1[id] ELSE {}) \cup bins
            ELSE v1[p]]

\* CrateListingV1::mark_installed
v1_mark_installed(v1, pkg, bins) ==
    LET \* Remove bins from any other packages.
        stripped == [p \in DOMAIN v1 |-> v1[p] \ bins]
        \* Remove entries where `bins` is empty.
        to_remove == {p \in DOMAIN stripped : stripped[p] = {}}
        kept == DOMAIN stripped \ to_remove
        id == pkg.package_id
    IN \* Add these bins.
       [p \in kept \cup {id} |->
            IF p = id
            THEN (IF id \in kept THEN stripped[id] ELSE {}) \cup bins
            ELSE stripped[p]]

\* CrateListingV1::remove as it would be if it kept an entry whose last
\* binary it removed.
v1_remove_keeping_empty(v1, pkg_id, bins) ==
    [v1 EXCEPT ![pkg_id] = @ \ bins]

\* CrateListingV1::remove, for a pkg_id that has an entry (the code panics
\* on a missing one, see Remove).
v1_remove(v1, pkg_id, bins) ==
    LET left == v1[pkg_id] \ bins
    IN IF left = {}
       THEN [p \in DOMAIN v1 \ {pkg_id} |-> v1[p]]
       ELSE [v1 EXCEPT ![pkg_id] = left]

-----------------------------------------------------------------------------
(* InstallInfo                                                             *)

\* is_up_to_date as it would be if it did not compare the target.
is_up_to_date_ignoring_target(info, opts, target, exes) ==
    /\ info.features = feature_set(opts.features)
    /\ info.all_features = opts.all_features
    /\ info.no_default_features = opts.no_default_features
    /\ info.profile = opts.requested_profile
    /\ info.bins = exes

\* is_up_to_date as it would be if it did not compare the features.
is_up_to_date_ignoring_features(info, opts, target, exes) ==
    /\ info.all_features = opts.all_features
    /\ info.no_default_features = opts.no_default_features
    /\ info.profile = opts.requested_profile
    /\ (info.target = None \/ info.target = Some(target))
    /\ info.bins = exes

\* Determine if this installation is "up to date", or if it needs to be
\* reinstalled.  This does not do Package/Source/Version checking.
is_up_to_date(info, opts, target, exes) ==
    /\ info.features = feature_set(opts.features)
    /\ info.all_features = opts.all_features
    /\ info.no_default_features = opts.no_default_features
    /\ info.profile = opts.requested_profile
    /\ (info.target = None \/ info.target = Some(target))
    /\ info.bins = exes

-----------------------------------------------------------------------------
(* Packages and their executables.  A package is its identity and the      *)
(* names of its bin and example targets.                                   *)

\* env::consts::EXE_SUFFIX of the platform the model is of (unix).
EXE_SUFFIX == ""

to_exe(name) == name \o EXE_SUFFIX

\* Helper to get the executable names from a filter.
exe_names(pkg, filter) ==
    CASE filter.kind = "Default" -> {to_exe(n) : n \in pkg.bin_targets}
      [] filter.kind = "Only" /\ filter.all_targets ->
            {to_exe(n) : n \in pkg.bin_targets \cup pkg.example_targets}
      [] OTHER ->
            LET all_bins == IF filter.bins = None
                            THEN pkg.bin_targets ELSE filter.bins[1]
                all_examples == IF filter.examples = None
                                THEN pkg.example_targets ELSE filter.examples[1]
            IN {to_exe(n) : n \in all_bins \cup all_examples}

-----------------------------------------------------------------------------
(* InstallTracker                                                          *)

\* load as it would be if it did not incorporate v1 into v2.
load_without_sync(contents_v1, contents_v2) ==
    IF contents_v1 # <<>> /\ ~toml_parses(contents_v1)
    THEN [ok |-> FALSE, path |-> ".crates.toml", v1 |-> DefaultV1, v2 |-> DefaultV2]
    ELSE IF contents_v2 # <<>> /\ ~json_parses(contents_v2)
    THEN [ok |-> FALSE, path |-> ".crates2.json", v1 |-> DefaultV1, v2 |-> DefaultV2]
    ELSE [ok |-> TRUE, path |-> "",
          v1 |-> IF contents_v1 = <<>> THEN DefaultV1 ELSE toml_from_str(contents_v1),
          v2 |-> IF contents_v2 = <<>> THEN DefaultV2 ELSE json_from_str(contents_v2)]

\* Create an InstallTracker from information on disk: what load returns for
\* the contents of the two files.
load(contents_v1, contents_v2) ==
    IF contents_v1 # <<>> /\ ~toml_parses(contents_v1)
    THEN [ok |-> FALSE, path |-> ".crates.toml", v1 |-> DefaultV1, v2 |-> DefaultV2]
    ELSE IF contents_v2 # <<>> /\ ~json_parses(contents_v2)
    THEN [ok |-> FALSE, path |-> ".crates2.json", v1 |-> DefaultV1, v2 |-> DefaultV2]
    ELSE LET v1 == IF contents_v1 = <<>>
                   THEN DefaultV1 ELSE toml_from_str(contents_v1)
             v2 == IF contents_v2 = <<>>
                   THEN DefaultV2 ELSE json_from_str(contents_v2)
         IN [ok |-> TRUE, path |-> "", v1 |-> v1, v2 |-> sync_v1(v2, v1)]

\* find_duplicates as it would be if it left out the executables that no
\* tracked package owns.
find_duplicates_skipping_untracked(self, dstdir, exes) ==
    [name \in {n \in exes : n \in dstdir /\ package_for_bin(self.v2, n) # None} |->
        package_for_bin(self.v2, name)]

\* find_duplicates as it would be if it did not look into the destination
\* directory.
find_duplicates_without_exists(self, dstdir, exes) ==
    [name \in exes |-> package_for_bin(self.v2, name)]

\* Check if any executables are already installed: the executable name to
\* the package that installed it, None for an untracked executable.
find_duplicates(self, dstdir, exes) ==
    [name \in {n \in exes : n \in dstdir} |-> package_for_bin(self.v2, name)]

\* The text of the conflict error: one line per duplicate, with its owner.
conflict_msg(duplicates) ==
    LET names == Sorted(DOMAIN duplicates, BinOrder)
    IN [i \in 1..Len(names) |-> <<names[i], duplicates[names[i]]>>]

\* matching_duplicates as it would be if it did not compare the names.
matching_duplicates_of_any_name(duplicates, pkg) ==
    {n \in DOMAIN duplicates : duplicates[n] # None}

\* The duplicates that come from a package with the name of pkg (the code
\* collects their owners and only compares the count).
matching_duplicates(duplicates, pkg) ==
    {n \in DOMAIN duplicates :
        /\ duplicates[n] # None
        /\ duplicates[n][1].name = pkg.package_id.name}

\* is_up_to_date of check_upgrade as it would be if a package from a git
\* source were never up to date.
dupe_is_up_to_date_never_for_git(self, dupe_pkg_id, pkg, opts, target, exes) ==
    LET source_id == pkg.package_id.source_id
        info == self.v2.installs[dupe_pkg_id]
    IN /\ dupe_pkg_id.version = pkg.package_id.version
       /\ SourceIdEq(dupe_pkg_id.source_id, source_id)
       /\ ~is_git(source_id)
       /\ is_up_to_date(info, opts, target, exes)

\* The closure is_up_to_date of check_upgrade: whether the install recorded
\* for dupe_pkg_id is the one the request asks for.
dupe_is_up_to_date(self, dupe_pkg_id, pkg, opts, target, exes) ==
    LET source_id == pkg.package_id.source_id
        info == self.v2.installs[dupe_pkg_id]
        \* Git sources must have the exact same hash to be considered "fresh".
        precise_equal == IF is_git(source_id)
                         THEN dupe_pkg_id.source_id.precise = source_id.precise
                         ELSE TRUE
    IN /\ dupe_pkg_id.version = pkg.package_id.version
       /\ SourceIdEq(dupe_pkg_id.source_id, source_id)
       /\ precise_equal
       /\ is_up_to_date(info, opts, target, exes)

\* What check_upgrade returns: Ok((freshness, duplicates)) or the error.
UpgradeOk(freshness, duplicates) ==
    [kind |-> "Ok", freshness |-> freshness, duplicates |-> duplicates, msg |-> <<>>]
UpgradeErr(duplicates) ==
    [kind |-> "Err", freshness |-> "none", duplicates |-> duplicates,
     msg |-> conflict_msg(duplicates)]

\* check_upgrade as it would be if it had no rule for path sources.
check_upgrade_without_path_rule(self, dstdir, pkg, force, opts, target) ==
    LET exes == exe_names(pkg, opts.filter)
        duplicates == find_duplicates(self, dstdir, exes)
        matching == matching_duplicates(duplicates, pkg)
    IN IF force \/ DOMAIN duplicates = {}
       THEN UpgradeOk("Dirty", duplicates)
       ELSE IF Cardinality(matching) = Cardinality(DOMAIN duplicates)
       THEN IF \A n \in matching :
                  dupe_is_up_to_date(self, duplicates[n][1], pkg, opts, target, exes)
            THEN UpgradeOk("Fresh", duplicates)
            ELSE UpgradeOk("Dirty", duplicates)
       ELSE UpgradeErr(duplicates)

\* Checks if the given package should be built, and checks if executables
\* already exist in the destination directory.
check_upgrade(self, dstdir, pkg, force, opts, target) ==
    LET exes == exe_names(pkg, opts.filter)
        \* Check if any tracked exe's are already installed.
        duplicates == find_duplicates(self, dstdir, exes)
        matching == matching_duplicates(duplicates, pkg)
    IN IF force \/ DOMAIN duplicates = {}
       THEN UpgradeOk("Dirty", duplicates)
       \* If both sets are the same length, that means all duplicates come
       \* from packages with the same name.
       ELSE IF Cardinality(matching) = Cardinality(DOMAIN duplicates)
       THEN IF is_path(pkg.package_id.source_id)
            \* `cargo install --path ...` is always rebuilt.
            THEN UpgradeOk("Dirty", duplicates)
            ELSE IF \A n \in matching :
                       dupe_is_up_to_date(self, duplicates[n][1], pkg, opts, target, exes)
                 THEN UpgradeOk("Fresh", duplicates)
                 ELSE UpgradeOk("Dirty", duplicates)
       ELSE UpgradeErr(duplicates)

\* The I/O faults a save can meet: none, or the failure of seek, of set_len
\* or of write_all after it wrote the first `written` lines (and, if torn,
\* a part of the next one).
NoFault == [at |-> "none", written |-> 0, torn |-> FALSE]
FaultSeek == [at |-> "seek", written |-> 0, torn |-> FALSE]
FaultSetLen == [at |-> "set_len", written |-> 0, torn |-> FALSE]
FaultWrite(k, torn) == [at |-> "write_all", written |-> k, torn |-> torn]

\* CrateListingV1::save and CrateListingV2::save on the bytes `data` of the
\* record: seek to the start, truncate, write.  Returns what the file holds
\* then and whether save returned Ok.
save(old, data, fault) ==
    CASE fault.at \in {"seek", "set_len"} -> [ok |-> FALSE, contents |-> old]
      [] fault.at = "write_all" ->
            LET k == IF fault.written < Len(data) THEN fault.written ELSE Len(data) - 1
            IN [ok |-> FALSE,
                contents |-> SubSeq(data, 1, k) \o
                             (IF fault.torn THEN <<TornLine>> ELSE <<>>)]
      [] OTHER -> [ok |-> TRUE, contents |-> data]

-----------------------------------------------------------------------------
(* The inputs the operations are called with.                              *)

\* A package: its identity and the names of its bin and example targets.
Package(id) == [package_id |-> id, bin_targets |-> {"foo"}, example_targets |-> {"bar"}]

\* The packages that Spec installs and removes.
SpecPkgs == {Package(FooReg1), Package(BarReg1)}

\* The faults Spec's saves meet.
MaxWritten == 1
SpecFaults ==
    {NoFault, FaultSeek, FaultSetLen}
    \cup {FaultWrite(k, torn) : k \in 0..MaxWritten, torn \in BOOLEAN}

\* The packages that get installed and the candidates of check_upgrade.
InstalledPkgs == {Package(id) : id \in {FooReg1, BarReg1, FooGitA, FooPath}}
CandidatePkgs == {Package(PkgOrder[i]) : i \in 1..Len(PkgOrder)}

FilterDefault == [kind |-> "Default", all_targets |-> FALSE, bins |-> None, examples |-> None]
FilterAllTargets == [kind |-> "Only", all_targets |-> TRUE, bins |-> None, examples |-> None]
FilterBar == [kind |-> "Only", all_targets |-> FALSE, bins |-> Some({"bar"}), examples |-> Some({})]
FilterBins == [kind |-> "Only", all_targets |-> FALSE, bins |-> None, examples |-> Some({})]
Filters == {FilterDefault, FilterAllTargets, FilterBar, FilterBins}

CompileOptions(filter, features, all_features, no_default_features, profile) ==
    [filter |-> filter, features |-> features, all_features |-> all_features,
     no_default_features |-> no_default_features, requested_profile |-> profile]

\* The build options of the requests: one base request and the requests
\* that differ from it in one setting.
BaseOpts(filter) == CompileOptions(filter, <<"x">>, FALSE, FALSE, "release")
RequestOpts(filter) ==
    {BaseOpts(filter),
     CompileOptions(filter, <<"y">>, FALSE, FALSE, "release"),
     CompileOptions(filter, <<"x">>, TRUE, FALSE, "release"),
     CompileOptions(filter, <<"x">>, FALSE, TRUE, "release"),
     CompileOptions(filter, <<"x">>, FALSE, FALSE, "debug")}
Targets == {"t1", "t2"}

\* The requests that differ from the base request in every setting.
OtherOpts(filter) == CompileOptions(filter, <<"y", "x", "y">>, TRUE, TRUE, "debug")

\* The build options check_upgrade is called with.
CheckOpts == UNION {RequestOpts(f) \cup {OtherOpts(f)} : f \in Filters}

\* The two configurations SpecUpgrade installs with.
InstallConfigs ==
    {[opts |-> BaseOpts(f), target |-> "t1", version_req |-> None, rustc |-> "rustc 1.0"] :
        f \in {FilterDefault, FilterAllTargets}}
    \cup {[opts |-> OtherOpts(f), target |-> "t2", version_req |-> Some("1.0"),
           rustc |-> "rustc 2.0"] : f \in {FilterDefault, FilterAllTargets}}

-----------------------------------------------------------------------------
(* PackageSet (core/package.rs): a Vec of packages, each with its name and *)
(* the names of its dependencies, and the ordering by dependency.  The     *)
(* graph it sorts with (util::graph) is a map from a node to its children. *)

\* The largest package set, and the package names in String order.
MaxPackages == 3
AllNames == <<"a", "b", "c", "d">>
PkgNames == {AllNames[i] : i \in 1..MaxPackages}

\* A package of a PackageSet: Package::name and Package::dependencies.
SetPackage(name, dependencies) == [name |-> name, dependencies |-> dependencies]

\* The permutations of a set, as sequences.
RECURSIVE Perms(_)
Perms(S) ==
    IF S = {} THEN {<<>>}
    ELSE UNION {{<<x>> \o p : p \in Perms(S \ {x})} : x \in S}

\* graph::Graph::new and Graph::add(node, children)
NewGraph == [n \in {} |-> {}]
graph_add(graph, node, children) ==
    [n \in DOMAIN graph \cup {node} |-> IF n = node THEN Range(children) ELSE graph[n]]

\* Graph::sort: what it can return.  Some(nodes), every node once and after
\* its children, in any of the orders that allow it (the nodes are hashed),
\* or None when a cycle leaves no such order.
graph_sort(graph) ==
    LET orders == {o \in Perms(DOMAIN graph) :
                      \A i, j \in 1..Len(o) : o[j] \in graph[o[i]] => j < i}
    IN IF orders = {} THEN {None} ELSE {Some(o) : o \in orders}

\* The panic of PackageSet::get on a name that no package of the set has.
GetPanic == [panic |-> "PackageSet.get: empty set"]

\* Get a package by name out of the set: the first one with that name.
get(self, name) ==
    LET found == SelectSeq(self, LAMBDA pkg : pkg.name = name)
    IN IF Len(found) = 0 THEN GetPanic ELSE found[1]

\* The graph PackageSet::sort builds: a node per package, in the order of
\* the Vec, with the names of its dependencies as children.
RECURSIVE sort_graph(_)
sort_graph(pkgs) ==
    IF pkgs = <<>> THEN NewGraph
    ELSE LET pkg == pkgs[Len(pkgs)]
         IN graph_add(sort_graph(SubSeq(pkgs, 1, Len(pkgs) - 1)), pkg.name,
                      pkg.dependencies)

\* PackageSet::sort as it would be if it returned the empty set for a
\* graph that has no order.
sort_empty_on_cycle(self, graph_sorted) ==
    IF graph_sorted = None THEN Some(<<>>)
    ELSE Some([i \in 1..Len(graph_sorted[1]) |-> get(self, graph_sorted[1][i])])

\* Whether PackageSet::sort panics, for what graph.sort() returned: it does
\* when get finds no package for a name.
sort_panics(self, graph_sorted) ==
    /\ graph_sorted # None
    /\ \E i \in 1..Len(graph_sorted[1]) : get(self, graph_sorted[1][i]) = GetPanic

\* PackageSet::sort, for what graph.sort() returned: None, or the packages
\* that get finds for the names.
sort(self, graph_sorted) ==
    IF graph_sorted = None THEN None
    ELSE LET pkgs == graph_sorted[1]
         IN Some([i \in 1..Len(pkgs) |-> get(self, pkgs[i])])

\* The value of sorted before sort is called.
NotSorted == [called |-> FALSE, panic |-> FALSE, value |-> None]

\* PackageSet::sort on the package set.
Sort ==
    /\ ~sorted.called
    /\ \E graph_sorted \in graph_sort(sort_graph(packages)) :
          sorted' = [called |-> TRUE,
                     panic |-> sort_panics(packages, graph_sorted),
                     value |-> IF sort_panics(packages, graph_sorted)
                               THEN None ELSE sort(packages, graph_sorted)]
    /\ UNCHANGED <<packages, tracker_vars, proc_vars>>

\* No package set is at hand while the install tracking runs.
SortIdle ==
    /\ packages = <<>>
    /\ sorted = NotSorted

-----------------------------------------------------------------------------
(* The operations.                                                         *)

\* InstallTracker::load: on an error no tracker exists and the locks are
\* released.
Load ==
    /\ pc = "unloaded"
    /\ LET r == load(file_v1, file_v2)
       IN /\ pc' = IF r.ok THEN "loaded" ELSE "unloaded"
          /\ tracker' = IF r.ok THEN [v1 |-> r.v1, v2 |-> r.v2] ELSE NoTracker
          /\ last' = [op |-> "load", ok |-> r.ok, path |-> r.path]
    /\ UNCHANGED <<file_v1, file_v2, dst>>
    /\ UNCHANGED outside_tracker

\* InstallTracker::mark_installed
MarkInstalled(package, bins, version_req, opts, target, rustc) ==
    /\ pc = "loaded"
    /\ tracker' = [v2 |-> v2_mark_installed(tracker.v2, package, bins, version_req,
                                            opts, target, rustc),
                   v1 |-> v1_mark_installed(tracker.v1, package, bins)]
    /\ last' = [op |-> "mark_installed", package |-> package, bins |-> bins,
                version_req |-> version_req, opts |-> opts, target |-> target,
                rustc |-> rustc,
                tracked_before |-> package.package_id \in DOMAIN tracker.v2.installs]
    /\ UNCHANGED <<file_v1, file_v2, dst, pc>>
    /\ UNCHANGED outside_tracker

\* InstallTracker::remove as it would be if a pkg_id without entry were
\* skipped instead of a panic.
Remove_skipping_missing(pkg_id, bins) ==
    /\ pc = "loaded"
    /\ pc' = pc
    /\ tracker' =
          [v1 |-> IF pkg_id \in DOMAIN tracker.v1
                  THEN v1_remove(tracker.v1, pkg_id, bins) ELSE tracker.v1,
           v2 |-> IF pkg_id \in DOMAIN tracker.v2.installs
                  THEN v2_remove(tracker.v2, pkg_id, bins) ELSE tracker.v2]
    /\ last' = [op |-> "remove", pkg_id |-> pkg_id, bins |-> bins, panic |-> ""]
    /\ UNCHANGED <<file_v1, file_v2, dst>>
    /\ UNCHANGED outside_tracker

\* InstallTracker::remove: v1.remove, then v2.remove; each panics when
\* pkg_id has no entry in its record, and the panic ends the operation with
\* the records as they are at that point.
Remove(pkg_id, bins) ==
    /\ pc = "loaded"
    /\ IF pkg_id \notin DOMAIN tracker.v1
       THEN /\ pc' = "panicked"
            /\ tracker' = tracker
            /\ last' = [op |-> "remove", pkg_id |-> pkg_id, bins |-> bins,
                        panic |-> "v1 unexpected missing"]
       ELSE IF pkg_id \notin DOMAIN tracker.v2.installs
       THEN /\ pc' = "panicked"
            /\ tracker' = [tracker EXCEPT !.v1 = v1_remove(tracker.v1, pkg_id, bins)]
            /\ last' = [op |-> "remove", pkg_id |-> pkg_id, bins |-> bins,
                        panic |-> "v2 unexpected missing"]
       ELSE /\ pc' = pc
            /\ tracker' = [v1 |-> v1_remove(tracker.v1, pkg_id, bins),
                           v2 |-> v2_remove(tracker.v2, pkg_id, bins)]
            /\ last' = [op |-> "remove", pkg_id |-> pkg_id, bins |-> bins,
                        panic |-> ""]
    /\ UNCHANGED <<file_v1, file_v2, dst>>
    /\ UNCHANGED outside_tracker

\* InstallTracker::save as it would be if it went on to v2.save after a
\* failure of v1.save.
Save_after_failed_v1(fault_v1, fault_v2) ==
    /\ pc = "loaded"
    /\ LET o1 == save(file_v1, toml_to_string(tracker.v1), fault_v1)
           o2 == save(file_v2, json_to_string(tracker.v2), fault_v2)
       IN /\ file_v1' = o1.contents
          /\ file_v2' = o2.contents
          /\ last' = [op |-> "save", ok |-> o1.ok /\ o2.ok,
                      path |-> IF ~o1.ok THEN ".crates.toml"
                               ELSE IF ~o2.ok THEN ".crates2.json" ELSE ""]
    /\ UNCHANGED <<dst, pc, tracker>>
    /\ UNCHANGED outside_tracker

\* InstallTracker::save: v1.save, and v2.save only if v1.save succeeded.
Save(fault_v1, fault_v2) ==
    /\ pc = "loaded"
    /\ LET o1 == save(file_v1, toml_to_string(tracker.v1), fault_v1)
           o2 == save(file_v2, json_to_string(tracker.v2), fault_v2)
       IN /\ file_v1' = o1.contents
          /\ file_v2' = IF o1.ok THEN o2.contents ELSE file_v2
          /\ last' = [op |-> "save", ok |-> o1.ok /\ o2.ok,
                      path |-> IF ~o1.ok THEN ".crates.toml"
                               ELSE IF ~o2.ok THEN ".crates2.json" ELSE ""]
    /\ UNCHANGED <<dst, pc, tracker>>
    /\ UNCHANGED outside_tracker

\* The process dies inside InstallTracker::save, in v1.save or (v1.save
\* done) in v2.save, at the point `crash` of the seek, set_len, write_all
\* sequence: the file holds what these calls had done to it by then, the
\* records in memory are gone and the operating system releases the locks.
SaveCrash(in_v1, crash) ==
    /\ pc = "loaded"
    /\ crash # NoFault
    /\ IF in_v1
       THEN /\ file_v1' = save(file_v1, toml_to_string(tracker.v1), crash).contents
            /\ file_v2' = file_v2
       ELSE /\ file_v1' = toml_to_string(tracker.v1)
            /\ file_v2' = save(file_v2, json_to_string(tracker.v2), crash).contents
    /\ pc' = "unloaded"
    /\ tracker' = NoTracker
    /\ last' = [op |-> "crash in save", in_v1 |-> in_v1,
                new_v1 |-> toml_to_string(tracker.v1),
                new_v2 |-> json_to_string(tracker.v2)]
    /\ UNCHANGED dst
    /\ UNCHANGED outside_tracker

\* The InstallTracker is dropped (also by the unwinding of a panic): the
\* records in memory are gone and the locks are released.
Drop ==
    /\ pc \in {"loaded", "panicked"}
    /\ pc' = "unloaded"
    /\ tracker' = NoTracker
    /\ last' = [op |-> "drop"]
    /\ UNCHANGED <<file_v1, file_v2, dst>>
    /\ UNCHANGED outside_tracker

\* InstallTracker::check_upgrade
CheckUpgrade(pkg, force, opts, target) ==
    /\ pc = "loaded"
    /\ last' = [op |-> "check_upgrade", pkg |-> pkg, force |-> force, opts |-> opts,
                target |-> target,
                result |-> check_upgrade(tracker, dst, pkg, force, opts, target)]
    /\ UNCHANGED <<file_v1, file_v2, dst, pc, tracker>>
    /\ UNCHANGED outside_tracker

\* The caller has taken what check_upgrade returned and goes on.
Continue ==
    /\ last.op = "check_upgrade"
    /\ last' = NoCall
    /\ UNCHANGED <<file_v1, file_v2, dst, pc, tracker>>
    /\ UNCHANGED outside_tracker

\* The installer copies an executable into the destination directory, or
\* the uninstaller (or the user) deletes one.
DstChange(name) ==
    /\ dst' = IF name \in dst THEN dst \ {name} ELSE dst \cup {name}
    /\ UNCHANGED <<file_v1, file_v2, pc, tracker, last>>
    /\ UNCHANGED outside_tracker

-----------------------------------------------------------------------------
(* Selection helpers: select_dep_pkg and select_pkg, and the Source and    *)
(* Dependency they are called with.                                        *)

\* The versions, in Version's order.
VersionOrder == <<"1.0.0", "2.0.0">>

\* A Dependency: the package name and the version requirement, which is an
\* operator and a version.
Dep(name, op, version) ==
    [package_name |-> name, version_req |-> [op |-> op, version |-> version]]

\* VersionReq's Display: the operator followed by the version, as the
\* sequence of the two.
req_to_string(req) == <<req.op, req.version>>

\* VersionReq::is_exact
is_exact(req) == req.op = "="

\* VersionReq::matches
req_matches(req, version) ==
    LET at(v) == CHOOSE i \in 1..Len(VersionOrder) : VersionOrder[i] = v
    IN CASE req.op = "=" -> version = req.version
         [] req.op = "^" -> version = req.version
         [] OTHER -> at(version) >= at(req.version)

\* PackageId::new(name, version, source_id): Err unless the text is a
\* version.
package_id_new(name, text, source_id) ==
    IF Len(text) = 1 /\ text[1] \in Range(VersionOrder)
    THEN Some(PkgId(name, text[1], source_id))
    ELSE None

\* A Source: whether its update, query and download succeed, the packages
\* it offers, and the identities it reports as yanked (yanked_ok: whether
\* is_yanked returns Ok).
Source(update_ok, query_ok, download_ok, yanked_ok, pkgs, yanked) ==
    [source_id |-> SrcRegistry, update_ok |-> update_ok, query_ok |-> query_ok,
     download_ok |-> download_ok, yanked_ok |-> yanked_ok,
     packages |-> pkgs, yanked |-> yanked]

\* source.query_vec(&dep): the identities of the offered packages that
\* match the dependency.
query_vec(source, dep) ==
    {id \in source.packages :
        /\ id.name = dep.package_name
        /\ req_matches(dep.version_req, id.version)}

\* Iterator::max over PackageIds.
max_package_id(ids) ==
    LET ordered == Sorted(ids, PkgOrder)
    IN ordered[Len(ordered)]

\* What the selection helpers return: Ok(package) or an error.
SelectOk(pkg) ==
    [kind |-> "Ok", pkg |-> Some(pkg), error |-> "", names |-> <<>>]
SelectErr(error, names) ==
    [kind |-> "Err", pkg |-> None, error |-> error, names |-> names]

\* select_dep_pkg, once it holds the package cache lock.
select_dep_pkg(source, dep, needs_update) ==
    IF needs_update /\ ~source.update_ok THEN SelectErr("update failed", <<>>)
    ELSE IF ~source.query_ok THEN SelectErr("query failed", <<>>)
    ELSE LET deps == query_vec(source, dep)
         IN IF deps # {}
            THEN IF source.download_ok
                 THEN SelectOk(Package(max_package_id(deps)))
                 ELSE SelectErr("download failed", <<>>)
            ELSE LET version == req_to_string(dep.version_req)
                     pkg_id == IF is_exact(dep.version_req)
                               THEN package_id_new(dep.package_name, Tail(version),
                                                   source.source_id)
                               ELSE package_id_new(dep.package_name, version,
                                                   source.source_id)
                     is_yanked == /\ pkg_id # None
                                  /\ source.yanked_ok
                                  /\ pkg_id[1] \in source.yanked
                 IN IF is_yanked
                    THEN SelectErr("cannot install package, it has been yanked",
                                   <<dep.package_name, source.source_id>>)
                    ELSE SelectErr("could not find",
                                   <<dep.package_name, source.source_id,
                                     req_to_string(dep.version_req)>>)

\* A candidate of select_pkg: a package with the targets given.
Candidate(name, bin_targets, example_targets) ==
    [package_id |-> PkgId(name, "1.0.0", SrcRegistry),
     bin_targets |-> bin_targets, example_targets |-> example_targets]

\* The names of the packages, sorted (sort_unstable_by_key on the name).
sorted_names(pkgs) ==
    LET names == [i \in 1..Len(pkgs) |-> pkgs[i].package_id.name]
        RECURSIVE by_name(_)
        by_name(k) ==
            IF k > Len(AllNames) THEN <<>>
            ELSE SelectSeq(names, LAMBDA n : n = AllNames[k]) \o by_name(k + 1)
    IN by_name(1)

\* multi_err: the message that names every package of the kind, sorted.
multi_err(kind, pkgs) == <<"multiple packages found", kind>> \o sorted_names(pkgs)

\* one as it would be if it returned the first of several elements.
one_taking_first(items, kind) ==
    IF Len(items) >= 1 THEN [ok |-> TRUE, item |-> Some(items[1]), msg |-> <<>>]
    ELSE [ok |-> TRUE, item |-> None, msg |-> <<>>]

\* one: the only element, None if there is none, the error if there are
\* more.
one(items, kind) ==
    IF Len(items) >= 2 THEN [ok |-> FALSE, item |-> None, msg |-> multi_err(kind, items)]
    ELSE IF Len(items) = 1 THEN [ok |-> TRUE, item |-> Some(items[1]), msg |-> <<>>]
    ELSE [ok |-> TRUE, item |-> None, msg |-> <<>>]

\* select_pkg, once it holds the package cache lock.  list_all is what the
\* closure returns: None for its error, Some(candidates) otherwise.
select_pkg(source, dep, list_all) ==
    IF ~source.update_ok THEN SelectErr("update failed", <<>>)
    ELSE IF dep # None THEN select_dep_pkg(source, dep[1], FALSE)
    ELSE IF list_all = None THEN SelectErr("list_all failed", <<>>)
    ELSE LET candidates == list_all[1]
             binaries == SelectSeq(candidates, LAMBDA cand : cand.bin_targets # {})
             examples == SelectSeq(candidates, LAMBDA cand : cand.example_targets # {})
             b == one(binaries, "binaries")
             e == one(examples, "examples")
         IN IF ~b.ok THEN SelectErr("multiple packages found", b.msg)
            ELSE IF b.item # None THEN SelectOk(b.item[1])
            ELSE IF ~e.ok THEN SelectErr("multiple packages found", e.msg)
            ELSE IF e.item # None THEN SelectOk(e.item[1])
            ELSE SelectErr("no packages found with binaries or examples", <<>>)

-----------------------------------------------------------------------------
(* Processes.  Several instances of the tool run on the same install root: *)
(* each calls InstallTracker::load, which opens and locks .crates.toml,    *)
(* then .crates2.json, then reads both, and keeps the two FileLocks in the *)
(* tracker until it is dropped.                                            *)

Procs == {"p1", "p2"}

\* Filesystem::open_rw takes the exclusive lock of the file and blocks
\* while another process holds it.
can_lock(holders, p) == holders \subseteq {p}
locked(holders, p) == holders \cup {p}
\* Dropping a FileLock releases the lock.
unlocked(holders, p) == holders \ {p}

\* A process that runs no operation and holds nothing.
IdleProc == [pc |-> "idle", tracker |-> NoTracker, ret |-> NoCall]

\* The process calls InstallTracker::load.
LoadCall(p) ==
    /\ procs[p].pc = "idle"
    /\ procs' = [procs EXCEPT ![p].pc = "open_v1", ![p].ret = NoCall]
    /\ UNCHANGED <<lock_v1, lock_v2, cache_lock, tracker_vars, sort_vars>>

\* let v1_lock = root.open_rw(".crates.toml", ..)?  when the lock is free.
LoadOpenV1(p) ==
    /\ procs[p].pc = "open_v1"
    /\ can_lock(lock_v1, p)
    /\ lock_v1' = locked(lock_v1, p)
    /\ procs' = [procs EXCEPT ![p].pc = "open_v2"]
    /\ UNCHANGED <<lock_v2, cache_lock, tracker_vars, sort_vars>>

\* let v2_lock = root.open_rw(".crates2.json", ..)?  when the lock is free.
LoadOpenV2(p) ==
    /\ procs[p].pc = "open_v2"
    /\ can_lock(lock_v2, p)
    /\ lock_v2' = locked(lock_v2, p)
    /\ procs' = [procs EXCEPT ![p].pc = "read"]
    /\ UNCHANGED <<lock_v1, cache_lock, tracker_vars, sort_vars>>

\* load as it would be if v1_lock outlived the error return.
LoadOpenFails_keeping_v1_lock(p) ==
    /\ procs[p].pc \in {"open_v1", "open_v2"}
    /\ procs' = [procs EXCEPT
                    ![p].pc = "idle",
                    ![p].ret = [op |-> "load", ok |-> FALSE,
                                path |-> IF procs[p].pc = "open_v1"
                                         THEN ".crates.toml" ELSE ".crates2.json"]]
    /\ UNCHANGED <<lock_v1, lock_v2, cache_lock, tracker_vars, sort_vars>>

\* open_rw returns an error (the file cannot be opened or locked): load
\* returns it through `?`, and a v1_lock it holds is dropped.
LoadOpenFails(p) ==
    /\ procs[p].pc \in {"open_v1", "open_v2"}
    /\ lock_v1' = unlocked(lock_v1, p)
    /\ procs' = [procs EXCEPT
                    ![p].pc = "idle",
                    ![p].ret = [op |-> "load", ok |-> FALSE,
                                path |-> IF procs[p].pc = "open_v1"
                                         THEN ".crates.toml" ELSE ".crates2.json"]]
    /\ UNCHANGED <<lock_v2, cache_lock, tracker_vars, sort_vars>>

\* load as it would be if the tracker it returns did not keep v2_lock.
LoadRead_dropping_v2_lock(p) ==
    /\ procs[p].pc = "read"
    /\ LET r == load(file_v1, file_v2)
       IN /\ procs' = [procs EXCEPT
                          ![p].pc = IF r.ok THEN "loaded" ELSE "idle",
                          ![p].tracker = IF r.ok THEN [v1 |-> r.v1, v2 |-> r.v2]
                                         ELSE NoTracker,
                          ![p].ret = [op |-> "load", ok |-> r.ok, path |-> r.path]]
          /\ lock_v1' = IF r.ok THEN lock_v1 ELSE unlocked(lock_v1, p)
          /\ lock_v2' = unlocked(lock_v2, p)
    /\ UNCHANGED <<cache_lock, tracker_vars, sort_vars>>

\* load as it would be if the tracker it returns kept neither lock.
LoadRead_releasing_locks(p) ==
    /\ procs[p].pc = "read"
    /\ LET r == load(file_v1, file_v2)
       IN procs' = [procs EXCEPT
                       ![p].pc = IF r.ok THEN "loaded" ELSE "idle",
                       ![p].tracker = IF r.ok THEN [v1 |-> r.v1, v2 |-> r.v2]
                                      ELSE NoTracker,
                       ![p].ret = [op |-> "load", ok |-> r.ok, path |-> r.path]]
    /\ lock_v1' = unlocked(lock_v1, p)
    /\ lock_v2' = unlocked(lock_v2, p)
    /\ UNCHANGED <<cache_lock, tracker_vars, sort_vars>>

\* The rest of load, under both locks: read and parse the two files and
\* return the tracker with the locks, or return the error, which drops the
\* two locks.
LoadRead(p) ==
    /\ procs[p].pc = "read"
    /\ LET r == load(file_v1, file_v2)
       IN /\ procs' = [procs EXCEPT
                          ![p].pc = IF r.ok THEN "loaded" ELSE "idle",
                          ![p].tracker = IF r.ok THEN [v1 |-> r.v1, v2 |-> r.v2]
                                         ELSE NoTracker,
                          ![p].ret = [op |-> "load", ok |-> r.ok, path |-> r.path]]
          /\ lock_v1' = IF r.ok THEN lock_v1 ELSE unlocked(lock_v1, p)
          /\ lock_v2' = IF r.ok THEN lock_v2 ELSE unlocked(lock_v2, p)
    /\ UNCHANGED <<cache_lock, tracker_vars, sort_vars>>

\* The drop of the tracker as it would be if it left the lock of
\* .crates.toml held.
ProcDrop_keeping_v1_lock(p) ==
    /\ procs[p].pc = "loaded"
    /\ procs' = [procs EXCEPT ![p].pc = "idle", ![p].tracker = NoTracker,
                              ![p].ret = [op |-> "drop"]]
    /\ lock_v2' = unlocked(lock_v2, p)
    /\ UNCHANGED <<lock_v1, cache_lock, tracker_vars, sort_vars>>

\* The process drops its InstallTracker, and with it the two locks.
ProcDrop(p) ==
    /\ procs[p].pc = "loaded"
    /\ procs' = [procs EXCEPT ![p].pc = "idle", ![p].tracker = NoTracker,
                              ![p].ret = [op |-> "drop"]]
    /\ lock_v1' = unlocked(lock_v1, p)
    /\ lock_v2' = unlocked(lock_v2, p)
    /\ UNCHANGED <<cache_lock, tracker_vars, sort_vars>>

\* The process calls mark_installed on its tracker.
ProcMarkInstalled(p, package, bins, version_req, opts, target, rustc) ==
    /\ procs[p].pc = "loaded"
    /\ procs' = [procs EXCEPT
                    ![p].tracker =
                        [v2 |-> v2_mark_installed(procs[p].tracker.v2, package, bins,
                                                  version_req, opts, target, rustc),
                         v1 |-> v1_mark_installed(procs[p].tracker.v1, package, bins)],
                    ![p].ret = [op |-> "mark_installed", package |-> package,
                                bins |-> bins]]
    /\ UNCHANGED <<lock_v1, lock_v2, cache_lock, tracker_vars, sort_vars>>

\* The process calls save on its tracker: first self.v1.save(..), which
\* rewrites .crates.toml,
ProcSaveV1(p) ==
    /\ procs[p].pc = "loaded"
    /\ file_v1' = save(file_v1, toml_to_string(procs[p].tracker.v1), NoFault).contents
    /\ procs' = [procs EXCEPT ![p].pc = "save_v2"]
    /\ UNCHANGED <<file_v2, dst, pc, tracker, last>>
    /\ UNCHANGED <<lock_v1, lock_v2, cache_lock, sort_vars>>

\* then self.v2.save(..), which rewrites .crates2.json.
ProcSaveV2(p) ==
    /\ procs[p].pc = "save_v2"
    /\ file_v2' = save(file_v2, json_to_string(procs[p].tracker.v2), NoFault).contents
    /\ procs' = [procs EXCEPT ![p].pc = "loaded",
                              ![p].ret = [op |-> "save", ok |-> TRUE, path |-> ""]]
    /\ UNCHANGED <<file_v1, dst, pc, tracker, last>>
    /\ UNCHANGED <<lock_v1, lock_v2, cache_lock, sort_vars>>

\* config.acquire_package_cache_lock() blocks while another process holds
\* the package cache lock; a process that holds it may take it again.
can_lock_cache(p) == \A q \in Procs \ {p} : cache_lock[q] = 0

\* The process calls select_dep_pkg or select_pkg.
SelectCall(p, op) ==
    /\ procs[p].pc = "idle"
    /\ procs' = [procs EXCEPT ![p].pc = op, ![p].ret = NoCall]
    /\ UNCHANGED <<lock_v1, lock_v2, cache_lock, tracker_vars, sort_vars>>

\* let _lock = config.acquire_package_cache_lock()?  when the lock is free.
SelectLock(p) ==
    /\ procs[p].pc \in {"select_dep_pkg", "select_pkg"}
    /\ can_lock_cache(p)
    /\ cache_lock' = [cache_lock EXCEPT ![p] = @ + 1]
    /\ procs' = [procs EXCEPT ![p].pc = IF @ = "select_pkg" THEN "select_pkg locked"
                                        ELSE "select_dep_pkg locked"]
    /\ UNCHANGED <<lock_v1, lock_v2, tracker_vars, sort_vars>>

\* acquire_package_cache_lock returns an error: the helper returns it.
SelectLockFails(p) ==
    /\ procs[p].pc \in {"select_dep_pkg", "select_pkg"}
    /\ procs' = [procs EXCEPT
                    ![p].ret = [op |-> procs[p].pc,
                                result |-> SelectErr("package cache lock failed", <<>>)],
                    ![p].pc = "idle"]
    /\ UNCHANGED <<lock_v1, lock_v2, cache_lock, tracker_vars, sort_vars>>

\* The rest of select_dep_pkg, under the package cache lock; _lock is
\* dropped when the function returns, with Ok or with an error.
SelectDepPkgReturn(p, source, dep, needs_update) ==
    /\ procs[p].pc = "select_dep_pkg locked"
    /\ procs' = [procs EXCEPT
                    ![p].ret = [op |-> "select_dep_pkg", source |-> source,
                                dep |-> dep, needs_update |-> needs_update,
                                result |-> select_dep_pkg(source, dep, needs_update)],
                    ![p].pc = "idle"]
    /\ cache_lock' = [cache_lock EXCEPT ![p] = @ - 1]
    /\ UNCHANGED <<lock_v1, lock_v2, tracker_vars, sort_vars>>

\* The rest of select_pkg, under the package cache lock.  With a dependency
\* it calls select_dep_pkg, which takes the lock a second time and drops it
\* when it returns; _lock is dropped when select_pkg returns.
SelectPkgReturn(p, source, dep, list_all) ==
    /\ procs[p].pc = "select_pkg locked"
    /\ procs' = [procs EXCEPT
                    ![p].ret = [op |-> "select_pkg", source |-> source, dep |-> dep,
                                list_all |-> list_all,
                                result |-> select_pkg(source, dep, list_all)],
                    ![p].pc = "idle"]
    /\ cache_lock' = [cache_lock EXCEPT ![p] = @ - 1]
    /\ UNCHANGED <<lock_v1, lock_v2, tracker_vars, sort_vars>>

\* No process runs while the one tracker of Spec is followed, or a package
\* set is sorted.
ProcsIdle ==
    /\ lock_v1 = {}
    /\ lock_v2 = {}
    /\ cache_lock = [p \in Procs |-> 0]
    /\ procs = [p \in Procs |-> IdleProc]

-----------------------------------------------------------------------------
(* Spec: the life of the tracking files of one install root, from empty    *)
(* files, through load, mutations, save and drop.                          *)

Init ==
    /\ file_v1 = <<>>
    /\ file_v2 = <<>>
    /\ dst = {}
    /\ pc = "unloaded"
    /\ tracker = NoTracker
    /\ last = NoCall
    /\ SortIdle
    /\ ProcsIdle

Next ==
    \/ Load
    \/ \E package \in SpecPkgs, bins \in SUBSET Bins :
          MarkInstalled(package, bins, None, BaseOpts(FilterDefault), "t1", "rustc 1.0")
    \/ \E id \in {p.package_id : p \in SpecPkgs}, bins \in SUBSET Bins :
          Remove(id, bins)
    \/ \E fault_v1 \in SpecFaults \ {NoFault} : Save(fault_v1, NoFault)
    \/ \E fault_v2 \in SpecFaults : Save(NoFault, fault_v2)
    \/ Drop

Spec == Init /\ [][Next]_vars

-----------------------------------------------------------------------------
(* SpecUpgrade: one InstallTracker, loaded from the empty files of a new   *)
(* install root, through installs, removals, changes of the destination    *)
(* directory and check_upgrade.  An install names at least one binary: an  *)
(* entry without binaries owns no executable, so check_upgrade never reads *)
(* it.                                                                     *)

InitUpgrade ==
    /\ file_v1 = <<>>
    /\ file_v2 = <<>>
    /\ dst = {}
    /\ pc = "loaded"
    /\ tracker = [v1 |-> load(<<>>, <<>>).v1, v2 |-> load(<<>>, <<>>).v2]
    /\ last = [op |-> "load", ok |-> TRUE, path |-> ""]
    /\ SortIdle
    /\ ProcsIdle

NextUpgrade ==
    \/ /\ last.op # "check_upgrade"
       /\ \E package \in InstalledPkgs, bins \in SUBSET Bins \ {{}}, c \in InstallConfigs :
             MarkInstalled(package, bins, c.version_req, c.opts, c.target, c.rustc)
    \/ /\ last.op # "check_upgrade"
       /\ \E id \in DOMAIN tracker.v1, bins \in SUBSET Bins \ {{}} : Remove(id, bins)
    \/ /\ last.op # "check_upgrade"
       /\ \E name \in Bins : DstChange(name)
    \/ /\ last.op # "check_upgrade"
       /\ \E pkg \in CandidatePkgs, force \in BOOLEAN, opts \in CheckOpts,
             target \in Targets :
             CheckUpgrade(pkg, force, opts, target)
    \/ Continue

SpecUpgrade == InitUpgrade /\ [][NextUpgrade]_vars

-----------------------------------------------------------------------------
(* SpecLoad: load on arbitrary parseable contents of the two files, as     *)
(* left by this or another version of the tool (an older one writes the    *)
(* legacy file alone).                                                     *)

\* The identities the files of SpecLoad name.
LoadIds == {FooReg1, BarReg1}

\* Every legacy record over LoadIds.
LegacyRecords ==
    UNION {[ids -> SUBSET Bins] : ids \in SUBSET LoadIds}

\* The install infos of the current records: migrated from v1, or written
\* by an install of a version that adds a key.
LoadInfos ==
    {from_v1(b) : b \in SUBSET Bins}
    \cup {[version_req |-> Some("1.0"), bins |-> b, features |-> {"x"},
           all_features |-> TRUE, no_default_features |-> TRUE, profile |-> "debug",
           target |-> Some("t1"), rustc |-> Some("rustc 1.0"), other |-> {"future"}] :
            b \in SUBSET Bins}

\* Every current record over LoadIds and LoadInfos.
CurrentRecords ==
    {[installs |-> i, other |-> o] :
        i \in UNION {[ids -> LoadInfos] : ids \in SUBSET LoadIds},
        o \in SUBSET {"future"}}

InitLoad ==
    /\ file_v1 \in {<<>>, <<TornLine>>} \cup {toml_to_string(r) : r \in LegacyRecords}
    /\ file_v2 \in {<<>>, <<OpenToken>>} \cup {json_to_string(r) : r \in CurrentRecords}
    /\ dst = {}
    /\ pc = "unloaded"
    /\ tracker = NoTracker
    /\ last = NoCall
    /\ SortIdle
    /\ ProcsIdle

NextLoad ==
    \/ Load
    \/ Drop

SpecLoad == InitLoad /\ [][NextLoad]_vars

-----------------------------------------------------------------------------
(* SpecSort: PackageSet::sort on every set of at most MaxPackages packages *)
(* with unique names, each depending on any of the names (itself and names *)
(* outside the set included), the Vec in ascending or descending order of  *)
(* the names.                                                              *)

\* No install tracker is at hand while a package set is sorted.
TrackerIdle ==
    /\ file_v1 = <<>>
    /\ file_v2 = <<>>
    /\ dst = {}
    /\ pc = "unloaded"
    /\ tracker = NoTracker
    /\ last = NoCall

Reverse(s) == [i \in 1..Len(s) |-> s[Len(s) + 1 - i]]

\* The orders of the Vec that SpecSort sorts: the names of a set, ascending
\* or descending.
SortNames ==
    UNION {{Sorted(S, AllNames), Reverse(Sorted(S, AllNames))} : S \in SUBSET PkgNames}

InitSort ==
    /\ TrackerIdle
    /\ \E names \in SortNames :
          \E dependencies \in [Range(names) -> SUBSET PkgNames] :
             packages = [i \in 1..Len(names) |->
                            SetPackage(names[i], Sorted(dependencies[names[i]], AllNames))]
    /\ sorted = NotSorted
    /\ ProcsIdle

NextSort == Sort

SpecSort == InitSort /\ [][NextSort]_vars

-----------------------------------------------------------------------------
(* SpecLocks: the processes call load on an install root whose files are   *)
(* empty, well-formed or cut short, and drop the trackers they get.        *)

\* The contents of the two files in SpecLocks.
LockedFilesV1 == {<<>>, <<TornLine>>, toml_to_string([p \in {FooReg1} |-> {"foo"}])}
LockedFilesV2 ==
    {<<>>, <<OpenToken>>,
     json_to_string([installs |-> [p \in {FooReg1} |-> from_v1({"foo"})], other |-> {}])}

\* The sources, dependencies and candidate lists of the selections in
\* SpecLocks: one per way a selection returns.
LockSources ==
    {Source(TRUE, TRUE, TRUE, TRUE, {FooReg1, FooReg2}, {}),
     Source(FALSE, TRUE, TRUE, TRUE, {FooReg1, FooReg2}, {}),
     Source(TRUE, FALSE, TRUE, TRUE, {FooReg1, FooReg2}, {}),
     Source(TRUE, TRUE, FALSE, TRUE, {FooReg1, FooReg2}, {}),
     Source(TRUE, TRUE, TRUE, TRUE, {FooReg1}, {FooReg2}),
     Source(TRUE, TRUE, TRUE, TRUE, {FooReg1}, {})}
LockDeps == {Dep("foo", "=", "2.0.0")}
LockLists ==
    {None, Some(<<>>), Some(<<Candidate("a", {"a"}, {})>>),
     Some(<<Candidate("b", {"b"}, {}), Candidate("a", {"a"}, {})>>)}

InitLocks ==
    /\ file_v1 \in LockedFilesV1
    /\ file_v2 \in LockedFilesV2
    /\ dst = {}
    /\ pc = "unloaded"
    /\ tracker = NoTracker
    /\ last = NoCall
    /\ SortIdle
    /\ ProcsIdle

NextLocks ==
    \E p \in Procs :
        \/ LoadCall(p)
        \/ LoadOpenV1(p)
        \/ LoadOpenV2(p)
        \/ LoadOpenFails(p)
        \/ LoadRead(p)
        \/ ProcDrop(p)
        \/ \E op \in {"select_dep_pkg", "select_pkg"} : SelectCall(p, op)
        \/ SelectLock(p)
        \/ SelectLockFails(p)
        \/ \E source \in LockSources, dep \in LockDeps :
              SelectDepPkgReturn(p, source, dep, TRUE)
        \/ \E source \in LockSources, dep \in LockDeps :
              SelectPkgReturn(p, source, Some(dep), None)
        \/ \E source \in LockSources, list_all \in LockLists :
              SelectPkgReturn(p, source, None, list_all)

SpecLocks == InitLocks /\ [][NextLocks]_vars

-----------------------------------------------------------------------------
(* SpecSelect: one process calls select_dep_pkg and select_pkg on every    *)
(* source, dependency and candidate list of the sets below.                *)

\* The sources: every outcome of update, query, download and is_yanked,
\* every set of offered packages, with or without a yanked foo 2.0.0 (which
\* a source does not offer).
SelectSources ==
    {s \in {Source(u, q, d, y, pkgs, yanked) :
                u \in BOOLEAN, q \in BOOLEAN, d \in BOOLEAN, y \in BOOLEAN,
                pkgs \in SUBSET {FooReg1, FooReg2}, yanked \in SUBSET {FooReg2}} :
        s.packages \cap s.yanked = {}}

\* The dependencies: foo with an exact, a caret and a lower-bound
\* requirement on each version.
SelectDeps ==
    {Dep("foo", op, version) : op \in {"=", "^", ">="}, version \in Range(VersionOrder)}

\* The candidate lists of select_pkg: at most MaxCandidates packages with
\* distinct names, in ascending or descending order of the names, each with
\* a binary target, an example target, both or neither; or the error of
\* list_all.
MaxCandidates == 3
CandidateNames ==
    UNION {{Sorted(S, AllNames), Reverse(Sorted(S, AllNames))} :
              S \in SUBSET {AllNames[i] : i \in 1..MaxCandidates}}
CandidateLists ==
    UNION {{[i \in 1..Len(names) |->
                Candidate(names[i], IF kind[names[i]] \in {"bin", "both"}
                                    THEN {names[i]} ELSE {},
                          IF kind[names[i]] \in {"example", "both"}
                          THEN {"demo"} ELSE {})] :
              kind \in [Range(names) -> {"bin", "example", "both", "none"}]} :
           names \in CandidateNames}
SelectLists == {None} \cup {Some(l) : l \in CandidateLists}

InitSelect ==
    /\ TrackerIdle
    /\ SortIdle
    /\ ProcsIdle

NextSelect ==
    \/ \E op \in {"select_dep_pkg", "select_pkg"} : SelectCall("p1", op)
    \/ SelectLock("p1")
    \/ SelectLockFails("p1")
    \/ \E source \in SelectSources, dep \in SelectDeps, needs_update \in BOOLEAN :
          SelectDepPkgReturn("p1", source, dep, needs_update)
    \/ \E source \in LockSources, dep \in SelectDeps :
          SelectPkgReturn("p1", source, Some(dep), None)
    \/ \E source \in LockSources, list_all \in SelectLists :
          SelectPkgReturn("p1", source, None, list_all)

SpecSelect == InitSelect /\ [][NextSelect]_vars

-----------------------------------------------------------------------------
(* SpecCrash: one install root through loads, installs and saves, where a  *)
(* save can meet an I/O error and the process can die at any point of a    *)
(* save.                                                                   *)

NextCrash ==
    \/ Load
    \/ \E package \in SpecPkgs, bins \in SUBSET Bins :
          MarkInstalled(package, bins, None, BaseOpts(FilterDefault), "t1", "rustc 1.0")
    \/ \E fault_v1 \in SpecFaults \ {NoFault} : Save(fault_v1, NoFault)
    \/ \E fault_v2 \in SpecFaults : Save(NoFault, fault_v2)
    \/ \E in_v1 \in BOOLEAN, crash \in SpecFaults : SaveCrash(in_v1, crash)
    \/ Drop

SpecCrash == Init /\ [][NextCrash]_vars

-----------------------------------------------------------------------------
(* SpecInstalls: two processes on one install root, each running load,     *)
(* mark_installed of its own package, save and the drop of the tracker,    *)
(* once, in every interleaving of their steps; the saves meet no I/O       *)
(* error.                                                                  *)

\* What each process installs: distinct identities, disjoint binary sets.
Installs ==
    [p \in Procs |->
        IF p = "p1" THEN [package |-> Package(FooReg1), bins |-> {"foo"}]
        ELSE [package |-> Package(BarReg1), bins |-> {"bar"}]]

\* The records the install root holds at the start: none, or those of
\* earlier installs, which own the binary names as well.
InstallsLegacy ==
    {DefaultV1,
     [p \in {FooGitA} |-> {"foo"}],
     [p \in {FooReg1} |-> {"bar", "foo"}],
     [p \in {BarReg1, FooReg2} |-> IF p = BarReg1 THEN {"bar"} ELSE {"foo"}]}

InitInstalls ==
    /\ \E v1 \in InstallsLegacy :
          /\ file_v1 \in {<<>>, toml_to_string(v1)}
          /\ file_v2 \in {<<>>, json_to_string(sync_v1(DefaultV2, v1))}
    /\ dst = {}
    /\ pc = "unloaded"
    /\ tracker = NoTracker
    /\ last = NoCall
    /\ SortIdle
    /\ ProcsIdle

NextInstalls ==
    \E p \in Procs :
        \/ procs[p].ret = NoCall /\ LoadCall(p)
        \/ LoadOpenV1(p)
        \/ LoadOpenV2(p)
        \/ LoadRead(p)
        \/ /\ procs[p].ret.op = "load"
           /\ ProcMarkInstalled(p, Installs[p].package, Installs[p].bins, None,
                                BaseOpts(FilterDefault), "t1", "rustc 1.0")
        \/ procs[p].ret.op = "mark_installed" /\ ProcSaveV1(p)
        \/ ProcSaveV2(p)
        \/ procs[p].ret.op = "save" /\ ProcDrop(p)

SpecInstalls == InitInstalls /\ [][NextInstalls]_vars

-----------------------------------------------------------------------------
(* SpecBlocking: two processes that call load and drop the tracker again   *)
(* and again on one install root.  A process whose open_rw can take the    *)
(* lock again and again does take it (or fails), a process under both      *)
(* locks goes on to read, and a holder discards its tracker in the end.    *)

NextBlocking ==
    \E p \in Procs :
        \/ LoadCall(p)
        \/ LoadOpenV1(p)
        \/ LoadOpenV2(p)
        \/ LoadOpenFails(p)
        \/ LoadRead(p)
        \/ ProcDrop(p)

FairBlocking ==
    \A p \in Procs :
        /\ SF_vars(LoadOpenV1(p))
        /\ SF_vars(LoadOpenV2(p))
        /\ WF_vars(LoadRead(p))
        /\ WF_vars(ProcDrop(p))

SpecBlocking == InitLocks /\ [][NextBlocking]_vars /\ FairBlocking

-----------------------------------------------------------------------------
(* Properties of the records.                                              *)

\* The identities of the legacy and of the current record of the tracker.
LegacyIds == DOMAIN tracker.v1
CurrentIds == DOMAIN tracker.v2.installs

\* The two records name the same identities with the same binaries.
RecordsAgree ==
    /\ LegacyIds = CurrentIds
    /\ \A p \in LegacyIds : tracker.v2.installs[p].bins = tracker.v1[p]

\* No binary name belongs to two identities, in either record.
NoSharedBin ==
    /\ \A p, q \in LegacyIds : p # q => tracker.v1[p] \cap tracker.v1[q] = {}
    /\ \A p, q \in CurrentIds :
          p # q => tracker.v2.installs[p].bins \cap tracker.v2.installs[q].bins = {}

\* No identity of either record has an empty binary set.
NoEmptyEntry ==
    /\ \A p \in LegacyIds : tracker.v1[p] # {}
    /\ \A p \in CurrentIds : tracker.v2.installs[p].bins # {}

\* C1: after any sequence of mark_installed and remove calls, a save and a
\* fresh load of the same root, the legacy and the current record that load
\* returns name the same identities, each with the same binary set.
C1_ReloadedRecordsAgree ==
    (last.op = "load" /\ last.ok) => RecordsAgree

\* C1 happens: a load returned two tracked identities from files of which
\* a save wrote the legacy one and failed to write the current one.
C1_Witness ==
    /\ last.op = "load" /\ last.ok
    /\ Cardinality(LegacyIds) = 2
    /\ file_v1 = toml_to_string(tracker.v1)
    /\ file_v2 # json_to_string(tracker.v2)
    /\ json_parses(file_v2)
    /\ DOMAIN json_from_str(file_v2).installs # LegacyIds

\* C2: after every mark_installed or remove on a tracker loaded from empty
\* files or from files a save wrote, no binary name belongs to more than one
\* identity, in the legacy record and in the current record.
C2_NoSharedBinAfterMutation ==
    last.op \in {"mark_installed", "remove"} => NoSharedBin

\* C2 happens: an install took over a binary, and both identities are
\* still tracked.
C2_Witness ==
    /\ last.op = "mark_installed"
    /\ Cardinality(LegacyIds) = 2
    /\ \A p \in LegacyIds : tracker.v1[p] # {}
    /\ \E p \in LegacyIds : p # last.package.package_id /\ tracker.v1[p] # {}
    /\ last.tracked_before

\* C3: after every mark_installed or remove, whatever the binary names
\* given (the empty set included), no identity of either record has an
\* empty binary set.
C3_NoEmptyEntryAfterMutation ==
    last.op \in {"mark_installed", "remove"} => NoEmptyEntry

\* What the two files hold, for files that parse (an empty file is the
\* default record).
LegacyOnDisk == IF file_v1 = <<>> THEN DefaultV1 ELSE toml_from_str(file_v1)
CurrentOnDisk == IF file_v2 = <<>> THEN DefaultV2 ELSE json_from_str(file_v2)

\* C4: reconcile is idempotent: sync_v1 applied to the current record that
\* one sync_v1 with the same legacy record produced changes nothing, in the
\* identities, the binary sets and every other field.
C4_SyncIdempotent ==
    (last.op = "load" /\ last.ok) =>
        /\ tracker.v2 = sync_v1(CurrentOnDisk, tracker.v1)
        /\ sync_v1(tracker.v2, tracker.v1) = tracker.v2

\* C4 happens: the sync_v1 of a load inserted an identity and removed
\* another, and a second sync_v1 leaves its result as it is.
C4_Witness ==
    /\ last.op = "load" /\ last.ok
    /\ \E p \in LegacyIds : p \notin DOMAIN CurrentOnDisk.installs
    /\ \E p \in DOMAIN CurrentOnDisk.installs : p \notin LegacyIds
    /\ sync_v1(tracker.v2, tracker.v1) = tracker.v2

\* C5: whatever parseable contents the two files have, the tracker that
\* load returns has a current record with the identities of the legacy
\* record (so every identity the legacy record lacks is gone before any
\* query or mutation) and with the legacy binary set for each; an identity
\* new to the current record has the default entry: no features, both
\* flags false, profile "release", target unknown.
C5_LoadResyncsCurrent ==
    (last.op = "load" /\ last.ok) =>
        /\ tracker.v1 = LegacyOnDisk
        /\ CurrentIds = DOMAIN LegacyOnDisk
        /\ \A p \in CurrentIds :
              /\ tracker.v2.installs[p].bins = LegacyOnDisk[p]
              /\ p \notin DOMAIN CurrentOnDisk.installs =>
                    /\ tracker.v2.installs[p].features = {}
                    /\ tracker.v2.installs[p].all_features = FALSE
                    /\ tracker.v2.installs[p].no_default_features = FALSE
                    /\ tracker.v2.installs[p].profile = "release"
                    /\ tracker.v2.installs[p].target = None

\* C5 happens: load met a current file that names an identity the legacy
\* file lacks and lacks one it names.
C5_Witness ==
    /\ last.op = "load" /\ last.ok
    /\ \E p \in DOMAIN LegacyOnDisk : p \notin DOMAIN CurrentOnDisk.installs
    /\ \E p \in DOMAIN CurrentOnDisk.installs : p \notin DOMAIN LegacyOnDisk
    /\ CurrentIds = DOMAIN LegacyOnDisk

-----------------------------------------------------------------------------
(* Properties of check_upgrade, stated on the call that last records.      *)

Checked == last.op = "check_upgrade"

\* The candidate's identity and the executables it would produce.
CandId == last.pkg.package_id
CandExes == exe_names(last.pkg, last.opts.filter)

\* The duplicates: the candidate's executables that exist in the
\* destination directory.
Existing == CandExes \cap dst

\* The tracked identities that own the binary name n.
Owners(n) == {p \in CurrentIds : n \in tracker.v2.installs[p].bins}

\* Every duplicate is owned by a tracked identity with the candidate's name.
AllOwnedByName ==
    \A n \in Existing :
        /\ Owners(n) # {}
        /\ \A p \in Owners(n) : p.name = CandId.name

\* The install recorded for the owner p is the one the request asks for.
RecordedAsRequested(p) ==
    LET info == tracker.v2.installs[p]
    IN /\ p.version = CandId.version
       /\ p.source_id.kind = CandId.source_id.kind
       /\ p.source_id.url = CandId.source_id.url
       /\ (CandId.source_id.kind = "git" =>
              p.source_id.precise = CandId.source_id.precise)
       /\ info.features = Range(last.opts.features)
       /\ info.all_features = last.opts.all_features
       /\ info.no_default_features = last.opts.no_default_features
       /\ info.profile = last.opts.requested_profile
       /\ (info.target # None => info.target = Some(last.target))
       /\ info.bins = CandExes

\* C6: without force, with at least one duplicate, every duplicate owned by
\* a tracked identity with the candidate's name and a candidate that is not
\* from a local path, check_upgrade returns Fresh if and only if every
\* owner has the candidate's version and origin (and precise revision, for a
\* git origin) and was recorded with the features, flags, profile, target
\* (when recorded) and binary set of the request; otherwise Dirty.
C6_FreshIffRecordedAsRequested ==
    (/\ Checked
     /\ ~last.force
     /\ Existing # {}
     /\ AllOwnedByName
     /\ CandId.source_id.kind # "path") =>
        /\ last.result.kind = "Ok"
        /\ last.result.freshness =
              IF \A n \in Existing : \A p \in Owners(n) : RecordedAsRequested(p)
              THEN "Fresh" ELSE "Dirty"

\* C6 happens: check_upgrade returned Fresh for a git candidate whose owner
\* has a recorded target.
C6_Witness ==
    /\ Checked
    /\ ~last.force
    /\ Existing # {}
    /\ AllOwnedByName
    /\ CandId.source_id.kind = "git"
    /\ \A n \in Existing : \A p \in Owners(n) : tracker.v2.installs[p].target # None
    /\ last.result.freshness = "Fresh"

\* C7: with force (whoever owns the existing files), or with none of the
\* candidate's executables in the destination directory, check_upgrade
\* returns Dirty and no error, and the duplicates it returns are exactly the
\* candidate's executables that exist in the destination directory.
C7_DirtyOnForceOrNoDuplicate ==
    (Checked /\ (last.force \/ Existing = {})) =>
        /\ last.result.kind = "Ok"
        /\ last.result.freshness = "Dirty"
        /\ DOMAIN last.result.duplicates = Existing

\* C7 happens: a forced check_upgrade met an untracked executable and one
\* owned by a package of another name.
C7_Witness ==
    /\ Checked
    /\ last.force
    /\ \E n \in Existing : Owners(n) = {}
    /\ \E n \in Existing : \E p \in Owners(n) : p.name # CandId.name
    /\ last.result.freshness = "Dirty"

\* C8: without force, with a duplicate owned by a tracked identity whose
\* name is not the candidate's, check_upgrade fails with the conflict error
\* and returns no freshness, whatever the candidate's origin and the other
\* duplicates.
C8_ConflictOnOtherName ==
    (/\ Checked
     /\ ~last.force
     /\ \E n \in Existing : \E p \in Owners(n) : p.name # CandId.name) =>
        /\ last.result.kind = "Err"
        /\ last.result.freshness = "none"

\* C8 happens: the candidate is from a local path, one duplicate belongs to
\* a package of another name and one to a package of the candidate's name.
C8_Witness ==
    /\ Checked
    /\ ~last.force
    /\ CandId.source_id.kind = "path"
    /\ \E n \in Existing : \E p \in Owners(n) : p.name # CandId.name
    /\ \E n \in Existing : \E p \in Owners(n) : p.name = CandId.name
    /\ last.result.kind = "Err"

\* C9: without force and with every duplicate owned by a tracked identity
\* with the candidate's name, a candidate from a local path gets Dirty, also
\* when the recorded version, origin, configuration and binary set are
\* those of the request.
C9_PathAlwaysDirty ==
    (/\ Checked
     /\ ~last.force
     /\ AllOwnedByName
     /\ CandId.source_id.kind = "path") =>
        /\ last.result.kind = "Ok"
        /\ last.result.freshness = "Dirty"

\* C9 happens: the path candidate owns all its duplicates and was recorded
\* exactly as the request asks.
C9_Witness ==
    /\ Checked
    /\ ~last.force
    /\ Existing # {}
    /\ AllOwnedByName
    /\ CandId.source_id.kind = "path"
    /\ \A n \in Existing : \A p \in Owners(n) : RecordedAsRequested(p)
    /\ last.result.freshness = "Dirty"

-----------------------------------------------------------------------------
(* Install, then check: the steps in which check_upgrade directly follows  *)
(* mark_installed(P, B, opts, target) for a package P that is not from a   *)
(* local path and had no entry, with all of B in the destination           *)
(* directory.                                                              *)

InstallThenCheck ==
    /\ last.op = "mark_installed"
    /\ ~last.tracked_before
    /\ last.package.package_id.source_id.kind # "path"
    /\ last.bins \subseteq dst
    /\ last'.op = "check_upgrade"

\* What C10 says of such a step.  With exact, only for an install whose
\* binaries B are the executable names of P under opts, and at least one.
InstallThenCheckOutcome(exact) ==
    LET P == last.package
        B == last.bins
        call == last'
        same_but_features ==
            /\ call.pkg = P
            /\ ~call.force
            /\ call.target = last.target
            /\ call.opts.filter = last.opts.filter
            /\ call.opts.all_features = last.opts.all_features
            /\ call.opts.no_default_features = last.opts.no_default_features
            /\ call.opts.requested_profile = last.opts.requested_profile
        produced == exact => (B # {} /\ B = exe_names(P, last.opts.filter))
    IN InstallThenCheck =>
        \* the same request is Fresh
        /\ (same_but_features /\ call.opts.features = last.opts.features /\ produced) =>
              (call.result.kind = "Ok" /\ call.result.freshness = "Fresh")
        \* the same request with another feature set is Dirty
        /\ (/\ same_but_features
            /\ Range(call.opts.features) # Range(last.opts.features)
            /\ produced) =>
              (call.result.kind = "Ok" /\ call.result.freshness = "Dirty")
        \* a package of another name that produces a binary of B conflicts,
        \* and is Dirty with force
        /\ (/\ call.pkg.package_id.name # P.package_id.name
            /\ exe_names(call.pkg, call.opts.filter) \cap B # {}) =>
              IF call.force
              THEN call.result.kind = "Ok" /\ call.result.freshness = "Dirty"
              ELSE call.result.kind = "Err"

\* C10 as stated: after mark_installed(P, B, opts, target) for a non-path P
\* without entry, all of B being in the destination directory, check_upgrade
\* for P with the same opts and target and no force returns Fresh, with a
\* different feature set Dirty, and for a package of another name that
\* produces a binary of B the conflict error without force and Dirty with it.
C10_InstallThenCheck_AsStated == [][InstallThenCheckOutcome(FALSE)]_vars

\* C10, amended: the same, for a B that is not empty and is exactly the set
\* of executable names P produces under opts.
C10_InstallThenCheck == [][InstallThenCheckOutcome(TRUE)]_vars

\* C10 happens: check_upgrade returned Fresh for a package that is not from
\* a local path, whose entry is as mark_installed wrote it for this request
\* and whose binaries are all in the destination directory.
C10_Witness ==
    /\ Checked
    /\ ~last.force
    /\ CandId.source_id.kind # "path"
    /\ CandId \in CurrentIds
    /\ tracker.v2.installs[CandId].bins = CandExes
    /\ tracker.v2.installs[CandId].bins \subseteq dst
    /\ tracker.v2.installs[CandId].target = Some(last.target)
    /\ tracker.v2.installs[CandId].rustc # None
    /\ last.result.kind = "Ok"
    /\ last.result.freshness = "Fresh"

-----------------------------------------------------------------------------
(* The steps of mark_installed and remove, told by the call that last     *)
(* records: the destination directory is the only other thing that can     *)
(* change while last keeps naming the call.                                *)

MarkInstalledStep == last'.op = "mark_installed" /\ dst' = dst

\* The binaries a legacy or current record holds for p, none without entry.
LegacyBins(t, p) == IF p \in DOMAIN t.v1 THEN t.v1[p] ELSE {}
CurrentBins(t, p) == IF p \in DOMAIN t.v2.installs THEN t.v2.installs[p].bins ELSE {}

\* What mark_installed(P, B, ...) leaves, against the records before it.
MarkInstalledPost ==
    LET P == last'.package.package_id
        B == last'.bins
        info == tracker'.v2.installs[P]
        others == (DOMAIN tracker.v1 \cup DOMAIN tracker'.v1
                   \cup DOMAIN tracker.v2.installs \cup DOMAIN tracker'.v2.installs) \ {P}
    IN \* P has an entry in both records, holding its previous binaries and B
       /\ P \in DOMAIN tracker'.v1
       /\ P \in DOMAIN tracker'.v2.installs
       /\ tracker'.v1[P] = LegacyBins(tracker, P) \cup B
       /\ info.bins = CurrentBins(tracker, P) \cup B
       \* no other identity owns a name of B; each keeps its previous
       \* binaries minus B and has no entry if that is empty
       /\ \A q \in others :
             /\ LegacyBins(tracker', q) = LegacyBins(tracker, q) \ B
             /\ CurrentBins(tracker', q) = CurrentBins(tracker, q) \ B
             /\ q \in DOMAIN tracker'.v1 <=> LegacyBins(tracker, q) \ B # {}
             /\ q \in DOMAIN tracker'.v2.installs <=> CurrentBins(tracker, q) \ B # {}
       \* the current record holds the configuration of the request, the
       \* legacy record nothing but binary names
       /\ info.version_req = last'.version_req
       /\ info.features = Range(last'.opts.features)
       /\ info.all_features = last'.opts.all_features
       /\ info.no_default_features = last'.opts.no_default_features
       /\ info.profile = last'.opts.requested_profile
       /\ info.target = Some(last'.target)
       /\ info.rustc = Some(last'.rustc)
       /\ tracker'.v1[P] \subseteq Bins

\* C11: after mark_installed(P, B, ...), in both records every name of B is
\* owned by P and by no other identity, every other identity keeps its
\* previous binaries minus B and is removed if that leaves none, P's binary
\* set is its previous set united with B, and the current record alone
\* stores the build configuration of the request for P.
C11_MarkInstalledPost == [][MarkInstalledStep => MarkInstalledPost]_vars

\* C11 happens: mark_installed ran for a package that had an entry, with the
\* second configuration, and an identity of another name kept a binary.
C11_Witness ==
    /\ last.op = "mark_installed"
    /\ last.tracked_before
    /\ last.target = "t2"
    /\ last.bins = {"foo"}
    /\ \E q \in CurrentIds :
          /\ q.name # last.package.package_id.name
          /\ tracker.v2.installs[q].bins = {"bar"}
          /\ tracker.v1[q] = {"bar"}
    /\ tracker.v2.installs[last.package.package_id].target = Some("t2")

RemoveStep == last'.op = "remove" /\ dst' = dst

\* What remove(P, B) leaves for a P that has an entry in both records,
\* against the records before it.
RemovePost ==
    LET P == last'.pkg_id
        B == last'.bins
    IN (P \in DOMAIN tracker.v1 /\ P \in DOMAIN tracker.v2.installs) =>
          /\ last'.panic = ""
          \* P keeps its previous binaries minus B, and no entry if none is left
          /\ LegacyBins(tracker', P) = tracker.v1[P] \ B
          /\ CurrentBins(tracker', P) = tracker.v2.installs[P].bins \ B
          /\ P \in DOMAIN tracker'.v1 <=> tracker.v1[P] \ B # {}
          /\ P \in DOMAIN tracker'.v2.installs <=> tracker.v2.installs[P].bins \ B # {}
          \* every other entry is as it was
          /\ DOMAIN tracker'.v1 \ {P} = DOMAIN tracker.v1 \ {P}
          /\ DOMAIN tracker'.v2.installs \ {P} = DOMAIN tracker.v2.installs \ {P}
          /\ \A q \in DOMAIN tracker.v1 \ {P} : tracker'.v1[q] = tracker.v1[q]
          /\ \A q \in DOMAIN tracker.v2.installs \ {P} :
                tracker'.v2.installs[q] = tracker.v2.installs[q]
          /\ tracker'.v2.other = tracker.v2.other

\* C12: for a tracked identity P, remove(P, B) leaves P with its previous
\* binary set minus B in both records, deletes P's entry from both records
\* exactly when that difference is empty, and leaves every other identity's
\* entry unchanged in both records.
C12_RemoveFrame == [][RemoveStep => RemovePost]_vars

\* C12 happens: remove returned after it deleted the entry of its identity
\* from both records, and another identity is still tracked.
C12_Witness ==
    /\ last.op = "remove"
    /\ last.panic = ""
    /\ last.pkg_id \notin LegacyIds
    /\ last.pkg_id \notin CurrentIds
    /\ LegacyIds # {}
    /\ RecordsAgree

\* C13: remove(P, B) for an identity P that neither record tracks panics
\* instead of returning an error, and it panics before either record has
\* been modified: the two records are as they were before the call.
C13_RemoveUntrackedPanics ==
    [][(/\ RemoveStep
        /\ last'.pkg_id \notin DOMAIN tracker.v1
        /\ last'.pkg_id \notin DOMAIN tracker.v2.installs)
       => (/\ last'.panic # ""
           /\ pc' = "panicked"
           /\ tracker' = tracker)]_vars

\* C13 happens: remove panicked on the identity missing from the legacy
\* record, while the tracker holds another identity in both records.
C13_Witness ==
    /\ last.op = "remove"
    /\ last.panic = "v1 unexpected missing"
    /\ pc = "panicked"
    /\ last.pkg_id \notin LegacyIds \cup CurrentIds
    /\ LegacyIds # {}
    /\ CurrentIds = LegacyIds

\* The binary names that no identity of either record owns.
Unowned(t) ==
    {b \in Bins : /\ \A q \in DOMAIN t.v1 : b \notin t.v1[q]
                  /\ \A q \in DOMAIN t.v2.installs : b \notin t.v2.installs[q].bins}

\* C14: remove(P, B) fails (panics) whenever B contains a binary name that
\* no tracked identity owns, also when P itself is tracked.
C14_RemoveUnownedBinaryFails ==
    [][(RemoveStep /\ last'.bins \cap Unowned(tracker) # {}) => last'.panic # ""]_vars

-----------------------------------------------------------------------------
(* The ordering of a package set.                                          *)

\* The names of the packages of the set, and the packages of the set that
\* the package named n depends on.
SetNames == {packages[i].name : i \in 1..Len(packages)}
DependsOn(n) == Range(get(packages, n).dependencies) \cap SetNames

\* The packages reached from the names in front over at most k dependencies.
RECURSIVE ReachFrom(_, _)
ReachFrom(front, k) ==
    IF k = 0 THEN front
    ELSE ReachFrom(front \cup UNION {DependsOn(m) : m \in front}, k - 1)

\* Some package depends on itself, directly or through other packages.
HasCycle == \E n \in SetNames : n \in ReachFrom(DependsOn(n), Len(packages))

\* C15: for a PackageSet with unique package names, sort() on an acyclic
\* dependency graph returns an ordering that contains every package of the
\* set exactly once with each package after all packages it depends on; on
\* a graph with a cycle it returns None; and on the empty set it returns
\* Some(empty set), which is not None.
C15_SortOrdersByDependency ==
    sorted.called =>
        /\ ~HasCycle =>
              /\ ~sorted.panic
              /\ sorted.value # None
              /\ LET o == sorted.value[1]
                 IN /\ Len(o) = Len(packages)
                    /\ Range(o) = Range(packages)
                    /\ \A i, j \in 1..Len(o) :
                          o[j].name \in Range(o[i].dependencies) => j < i
        /\ HasCycle => (~sorted.panic /\ sorted.value = None)
        /\ packages = <<>> =>
              (~sorted.panic /\ sorted.value = Some(<<>>) /\ sorted.value # None)

\* C15 happens: sort returned an ordering of three packages, two of which
\* depend on another one, that is not the order of the Vec.
C15_Witness ==
    /\ sorted.called
    /\ ~HasCycle
    /\ Len(packages) = 3
    /\ Cardinality({n \in SetNames : DependsOn(n) # {}}) = 2
    /\ sorted.value # None
    /\ sorted.value[1] # packages

-----------------------------------------------------------------------------
(* The locks of the processes.                                             *)

\* The process holds an InstallTracker.
HoldsTracker(p) == procs[p].pc = "loaded"

\* The process is where load reads the files, or holds a tracker (which
\* save writes the files from).
ReadsOrWrites(p) == procs[p].pc \in {"read", "loaded"}

\* C16: no two processes hold a loaded InstallTracker for the same install
\* root at the same time; a process that reads the files in load or holds a
\* tracker holds the exclusive locks of both files, from before the first
\* read until the tracker is dropped; so no process reads or writes either
\* file while another process holds a tracker.
C16_MutualExclusion ==
    /\ \A p, q \in Procs : (HoldsTracker(p) /\ HoldsTracker(q)) => p = q
    /\ \A p \in Procs : ReadsOrWrites(p) => (lock_v1 = {p} /\ lock_v2 = {p})
    /\ \A p, q \in Procs : (ReadsOrWrites(p) /\ HoldsTracker(q)) => p = q

\* C16 happens: one process holds a tracker it loaded from well-formed
\* files while the other one is in load, waiting for the first lock.
C16_Witness ==
    \E p, q \in Procs :
        /\ HoldsTracker(p)
        /\ procs[p].tracker.v1 # DefaultV1
        /\ procs[q].pc = "open_v1"
        /\ ~can_lock(lock_v1, q)

\* The process has returned from load, select_dep_pkg or select_pkg with an
\* error.
ReturnedError(p) ==
    /\ procs[p].pc = "idle"
    /\ \/ procs[p].ret.op = "load" /\ ~procs[p].ret.ok
       \/ /\ procs[p].ret.op \in {"select_dep_pkg", "select_pkg"}
          /\ procs[p].ret.result.kind = "Err"

\* C18: on every exit path of load with an error (a lock that cannot be
\* acquired, a file that does not parse) and of select_dep_pkg and
\* select_pkg with an error, the process holds neither file lock nor the
\* package cache lock once the operation has returned.
C18_NoLockAfterError ==
    \A p \in Procs :
        ReturnedError(p) =>
            /\ p \notin lock_v1
            /\ p \notin lock_v2
            /\ cache_lock[p] = 0

\* C18 happens: one process has returned from load with the parse error of
\* the current file, the other from select_pkg with an error, and the locks
\* are free.
C18_Witness ==
    \E p, q \in Procs :
        /\ ReturnedError(p)
        /\ procs[p].ret.op = "load"
        /\ procs[p].ret.path = ".crates2.json"
        /\ file_v2 = <<OpenToken>>
        /\ ReturnedError(q)
        /\ procs[q].ret.op = "select_pkg"
        /\ procs[q].ret.result.error = "multiple packages found"
        /\ lock_v1 = {}
        /\ lock_v2 = {}

-----------------------------------------------------------------------------
(* The selection helpers.                                                  *)

\* The last return of the process of SpecSelect.
Selected == procs["p1"].ret

\* select_dep_pkg has returned from under the package cache lock, and the
\* source had no candidate for the dependency (its update, where asked for,
\* and its query succeeded).
NoCandidate ==
    /\ Selected.op = "select_dep_pkg"
    /\ "source" \in DOMAIN Selected
    /\ Selected.source.update_ok \/ ~Selected.needs_update
    /\ Selected.source.query_ok
    /\ query_vec(Selected.source, Selected.dep) = {}

\* The source reports the version that the request names as yanked.
RequestedIsYanked ==
    /\ Selected.source.yanked_ok
    /\ PkgId(Selected.dep.package_name, Selected.dep.version_req.version,
             Selected.source.source_id) \in Selected.source.yanked

\* C20: when the source returns no candidate for the dependency,
\* select_dep_pkg fails with the yanked error if the source reports the
\* version named by the request as yanked (a request foo ^2.0 with foo 2.0.0
\* yanked), and with the not-found error naming the source and the version
\* requirement otherwise; it returns no package.
C20_YankedOrNotFound ==
    NoCandidate =>
        /\ Selected.result.kind = "Err"
        /\ Selected.result.pkg = None
        /\ IF RequestedIsYanked
           THEN Selected.result.error = "cannot install package, it has been yanked"
           ELSE /\ Selected.result.error = "could not find"
                /\ Selected.result.names =
                      <<Selected.dep.package_name, Selected.source.source_id,
                        req_to_string(Selected.dep.version_req)>>

-----------------------------------------------------------------------------
(* Crashes inside save.                                                    *)

\* Whether a later load accepts the contents as a legacy, as a current
\* record.
AcceptedV1(contents) == load(contents, <<>>).ok
AcceptedV2(contents) == load(<<>>, contents).ok

\* C17: if the process crashes at any step inside save(), each tracking
\* file holds either its complete old content or its complete new content,
\* never an empty or partially written content that a later load would
\* accept as a valid record.
C17_CrashSafeSave ==
    [][last'.op = "crash in save" =>
          /\ \/ file_v1' \in {file_v1, last'.new_v1}
             \/ ~AcceptedV1(file_v1')
          /\ \/ file_v2' \in {file_v2, last'.new_v2}
             \/ ~AcceptedV2(file_v2')]_vars

-----------------------------------------------------------------------------
(* The order of the two writes of save.                                    *)

\* A step of save that returned, and one in which the process died.
SaveStep == last'.op = "save" /\ pc = "loaded"
CrashStep == last'.op = "crash in save" /\ pc = "loaded"

\* The legacy file is written first: a save that fails or dies in the
\* legacy write leaves the current file as it was, and one that fails or
\* dies in the current write has written the whole legacy file.
LegacyWrittenFirst ==
    /\ SaveStep /\ last'.path = ".crates.toml" => file_v2' = file_v2
    /\ SaveStep /\ last'.path # ".crates.toml" => file_v1' = toml_to_string(tracker.v1)
    /\ CrashStep /\ last'.in_v1 => file_v2' = file_v2
    /\ CrashStep /\ ~last'.in_v1 => file_v1' = last'.new_v1

\* A load step that succeeds returns a current record with the identities
\* and the binary sets of the legacy file.
LoadFollowsLegacyFile ==
    (pc = "unloaded" /\ last'.op = "load" /\ last'.ok) =>
        /\ DOMAIN tracker'.v2.installs = DOMAIN LegacyOnDisk
        /\ \A p \in DOMAIN LegacyOnDisk : tracker'.v2.installs[p].bins = LegacyOnDisk[p]

\* C19: save writes the legacy file first and the current file only if the
\* legacy write succeeded; after a save that failed or was interrupted
\* between the two writes (legacy file new, current file old or empty) the
\* next successful load returns a current record whose identities and
\* binary sets are those of the legacy file.
C19_LegacyFirstThenReconciled ==
    [][LegacyWrittenFirst /\ LoadFollowsLegacyFile]_vars

\* C19 happens: a save wrote the legacy file and not the current one, which
\* is empty or names other identities, and a later load succeeded with the
\* identities of the legacy file in the current record.
C19_Witness ==
    /\ last.op = "load" /\ last.ok
    /\ file_v1 # <<>>
    /\ DOMAIN LegacyOnDisk # {}
    /\ DOMAIN CurrentOnDisk.installs # DOMAIN LegacyOnDisk
    /\ \E p \in DOMAIN LegacyOnDisk : LegacyOnDisk[p] # {}
    /\ CurrentIds = DOMAIN LegacyOnDisk
    /\ \A p \in CurrentIds : tracker.v2.installs[p].bins = LegacyOnDisk[p]

\* select_pkg has returned from a call without a dependency, its update
\* and its list_all having succeeded.
ListedAll ==
    /\ Selected.op = "select_pkg"
    /\ "source" \in DOMAIN Selected
    /\ Selected.dep = None
    /\ Selected.source.update_ok
    /\ Selected.list_all # None

\* The candidates of the call that have a binary, an example target.
WithBinary == {c \in Range(Selected.list_all[1]) : c.bin_targets # {}}
WithExample == {c \in Range(Selected.list_all[1]) : c.example_targets # {}}

\* The names of the candidates in alphabetical order.
Alphabetical(cands) == Sorted({c.package_id.name : c \in cands}, AllNames)

\* What select_pkg is to return when the category in question holds cands.
SelectedFrom(cands, kind) ==
    IF Cardinality(cands) = 1
    THEN /\ Selected.result.kind = "Ok"
         /\ Selected.result.pkg = Some(CHOOSE c \in cands : TRUE)
    ELSE /\ Selected.result.kind = "Err"
         /\ Selected.result.pkg = None
         /\ Selected.result.error = "multiple packages found"
         /\ Selected.result.names =
               <<"multiple packages found", kind>> \o Alphabetical(cands)

\* C21: select_pkg without a dependency returns the single candidate with
\* a binary target when exactly one exists; looks at the candidates with
\* example targets only when none has a binary target, returning the single
\* one; fails with the ambiguity error that lists every name of the
\* category in alphabetical order when the category holds more than one;
\* and fails with the nothing-installable error when both are empty.
C21_SelectPkgPicksTheOnlyOne ==
    ListedAll =>
        IF WithBinary # {} THEN SelectedFrom(WithBinary, "binaries")
        ELSE IF WithExample # {} THEN SelectedFrom(WithExample, "examples")
        ELSE /\ Selected.result.kind = "Err"
             /\ Selected.result.pkg = None
             /\ Selected.result.error = "no packages found with binaries or examples"

\* C21 happens: no candidate has a binary target, several have an example
\* target and were listed in descending order of their names, and the
\* error names them in ascending order.
C21_Witness ==
    /\ ListedAll
    /\ WithBinary = {}
    /\ Cardinality(WithExample) >= 2
    /\ Len(Selected.list_all[1]) >= 2
    /\ Selected.list_all[1][1].package_id.name = "c"
    /\ Selected.list_all[1][1].example_targets # {}
    /\ Selected.result.error = "multiple packages found"
    /\ Selected.result.names[3] = "a"

-----------------------------------------------------------------------------
(* The two records in memory.                                              *)

\* InstallTracker::installed_bins, served by the legacy record.
installed_bins(pkg_id) ==
    IF pkg_id \in DOMAIN tracker.v1 THEN Some(tracker.v1[pkg_id]) ELSE None

\* The reverse lookup of the current record agrees with the enumeration of
\* the legacy record (all_installed_bins) for the binary name b.
LookupAgrees(b) ==
    LET found == package_for_bin(tracker.v2, b)
    IN /\ found # None =>
             /\ installed_bins(found[1]) # None
             /\ b \in installed_bins(found[1])[1]
       /\ found = None => \A p \in DOMAIN tracker.v1 : b \notin tracker.v1[p]

\* C22: in every state of a tracker that load returned, after any sequence
\* of mark_installed and remove calls, the legacy and the current record in
\* memory name the same identities with the same binary sets, so that
\* package_for_bin(b) returns an identity p only if b is in
\* installed_bins(p), and None only if no enumerated identity owns b.
C22_RecordsAgreeInMemory ==
    pc \in {"loaded", "panicked"} =>
        /\ RecordsAgree
        /\ \A b \in Bins : LookupAgrees(b)

\* C22 happens: after a remove the tracker holds an identity, the reverse
\* lookup finds the owner of one binary name and none for the other.
C22_Witness ==
    /\ pc = "loaded"
    /\ last.op = "remove"
    /\ LegacyIds # {}
    /\ \E b \in Bins : package_for_bin(tracker.v2, b) # None
    /\ \E b \in Bins : package_for_bin(tracker.v2, b) = None
    /\ RecordsAgree

-----------------------------------------------------------------------------
(* Installs of two processes.                                              *)

\* The process has run load, mark_installed, save and dropped its tracker.
Finished(p) == procs[p].pc = "idle" /\ procs[p].ret.op = "drop"

\* Both files record the install of the process.
Recorded(p) ==
    LET id == Installs[p].package.package_id
    IN /\ id \in DOMAIN LegacyOnDisk
       /\ LegacyOnDisk[id] = Installs[p].bins
       /\ id \in DOMAIN CurrentOnDisk.installs
       /\ CurrentOnDisk.installs[id].bins = Installs[p].bins

\* C23: no lost update across processes: when two processes have each run
\* load, mark_installed(P_i, B_i), save and the drop of the tracker on the
\* same install root, with distinct identities and disjoint binary sets,
\* then under every interleaving the legacy and the current file record
\* both P_1 with B_1 and P_2 with B_2.
C23_NoLostUpdate ==
    (\A p \in Procs : Finished(p)) => \A p \in Procs : Recorded(p)

\* C23 happens: both processes have finished and the files record both
\* installs, on a root whose earlier records owned the two binary names.
C23_Witness ==
    /\ \A p \in Procs : Finished(p)
    /\ \A p \in Procs : Recorded(p)
    /\ FooReg2 \notin DOMAIN LegacyOnDisk
    /\ DOMAIN LegacyOnDisk = {FooReg1, BarReg1}

-----------------------------------------------------------------------------
(* Install, then check.                                                    *)

\* A step in which check_upgrade is called for the package P that
\* mark_installed has just recorded with the binaries B, with the same
\* opts and target and without force, P not being from a path, the
\* executables of P under opts being exactly B and all of them in the
\* destination directory.
CheckAfterInstall ==
    /\ last.op = "mark_installed"
    /\ last'.op = "check_upgrade"
    /\ last'.pkg = last.package
    /\ ~last'.force
    /\ last'.opts = last.opts
    /\ last'.target = last.target
    /\ ~is_path(last.package.package_id.source_id)
    /\ exe_names(last.package, last.opts.filter) = last.bins
    /\ last.bins \subseteq dst

\* check_upgrade returns Fresh in that step.
ReturnsFresh == last'.result.kind = "Ok" /\ last'.result.freshness = "Fresh"

\* mark_installed adds B to the binaries of an entry P has: the binaries
\* the entry had before are all in B exactly if it now holds B.
EarlierBinsInB == tracker.v2.installs[last.package.package_id].bins = last.bins

\* C24 as stated: for every reachable tracker state and every non-path
\* package P, after mark_installed(P, B, opts, target) with all of B in
\* the destination directory, check_upgrade for P without force, with the
\* same opts and target and the executable set B, returns Fresh, also when
\* P had an entry whose binaries are not all in B.
C24_ConvergesToFresh_AsStated == [][CheckAfterInstall => ReturnsFresh]_vars

\* C24, amended: the same, for a B that is not empty and holds every
\* binary of the entry P had before the call, if it had one.
C24_ConvergesToFresh ==
    [][CheckAfterInstall /\ last.bins # {} /\ EarlierBinsInB => ReturnsFresh]_vars

\* C24 happens: check_upgrade returned Fresh for a package from a git
\* source whose entry, made with another configuration, a later
\* mark_installed has overwritten with the requested one.
C24_Witness ==
    /\ Checked
    /\ ~last.force
    /\ is_git(CandId.source_id)
    /\ CandId \in CurrentIds
    /\ tracker.v2.installs[CandId].bins = CandExes
    /\ Cardinality(CandExes) = 2
    /\ CandExes \subseteq dst
    /\ tracker.v2.installs[CandId].profile = "debug"
    /\ tracker.v2.installs[CandId].target = Some("t2")
    /\ last.target = "t2"
    /\ last.result.kind = "Ok"
    /\ last.result.freshness = "Fresh"

-----------------------------------------------------------------------------
(* Executables that nobody owns.                                           *)

\* The duplicates of the call that no tracked identity owns.
Untracked == {n \in Existing : Owners(n) = {}}

\* C25: when force is false and at least one executable of the candidate
\* exists in the destination directory but is owned by no tracked identity,
\* check_upgrade fails with the conflict error, which lists the untracked
\* binary without an owner, and returns neither Fresh nor Dirty, even if
\* all other duplicates are owned by an identity with the candidate's name.
C25_UntrackedBinaryConflicts ==
    (Checked /\ ~last.force /\ Untracked # {}) =>
        /\ last.result.kind = "Err"
        /\ last.result.freshness \notin {"Fresh", "Dirty"}
        /\ \A n \in Untracked :
              /\ n \in DOMAIN last.result.duplicates
              /\ last.result.duplicates[n] = None
              /\ \E i \in 1..Len(last.result.msg) : last.result.msg[i] = <<n, None>>

\* C25 happens: one executable of the candidate is in the destination
\* directory without an owner, the other is owned by the candidate itself,
\* and check_upgrade returned the error.
C25_Witness ==
    /\ Checked
    /\ ~last.force
    /\ Untracked # {}
    /\ \E n \in Existing : Owners(n) = {CandId}
    /\ last.result.kind = "Err"
    /\ Len(last.result.msg) = 2

-----------------------------------------------------------------------------
(* Blocking in load.                                                       *)

\* The process is inside load; it waits for the lock of a file that
\* another process holds.
Loading(p) == procs[p].pc \in {"open_v1", "open_v2", "read"}
WaitsFor(p) ==
    IF procs[p].pc = "open_v1" THEN lock_v1 \ {p}
    ELSE IF procs[p].pc = "open_v2" THEN lock_v2 \ {p}
    ELSE {}

\* A process that is inside load with the lock of .crates2.json holds the
\* lock of .crates.toml: the legacy file is locked first.
LegacyLockedFirst == \A p \in Procs : p \in lock_v2 => p \in lock_v1

\* No set of processes in which each waits for a lock that another of the
\* set holds.
NoCircularWait ==
    \A S \in SUBSET Procs \ {{}} : \E p \in S : WaitsFor(p) \cap S = {}

====
